---- MODULE Spec2Model ----
(***************************************************************************)
(* Model of the V4L2 decode component (V4L2DecodeComponent.cpp) and of the *)
(* V4L2 decoder that it owns (V4L2Decoder.cpp).                            *)
(*                                                                         *)
(* The decoder sequence is the FIFO `tasks`: client entry points post      *)
(* tasks, RunTask executes the task at the head.  Handlers are state       *)
(* transformers over the record State; a handler that calls another        *)
(* handler applies that handler's transformer, so one action is one whole  *)
(* task.  The device, the frame pool and the client are the environment.   *)
(* Colour aspects are not modelled (no state below depends on them).       *)
(***************************************************************************)
EXTENDS Integers, Sequences, FiniteSets, TLC

\* ------------------------------------------------------------------ bounds
MaxCalls == 3          \* calls of queue, flush, drain, stop and release the client makes
NumInputBuffers == 1   \* input buffers the driver grants to allocateBuffers(kNumInputBuffers)
MaxOutputBuffers == 1  \* output buffers the driver grants on a resolution change
MaxResChanges == 1     \* source-change events the device raises
PoolCalls == 2          \* the same four limits for the runs that exercise the frame pool
PoolInputBuffers == 1
PoolOutputBuffers == 2
PoolResChanges == 2
NoShowInputBuffers == 2  \* input buffers of the runs in which the codec hides frames
AnyCalls == 2           \* calls of a client that does not look at the state before it calls
NumCreators == 2        \* threads that call create() and drop components
MaxCap == 2             \* largest value of the instance cap that is tried
MaxInstances == 3       \* components that exist at once when the cap is -1

\* ------------------------------------------------------- program constants
IdModulus == 1073741824   \* 0x3FFFFFFF + 1: frameIndexToBitstreamId keeps 30 bits

\* Frame indices are 64-bit in the program; the model keeps them below 2^31.
MaxFrameIndex == IdModulus + (IdModulus - 1)

NoBlock == 0 - 1

VARIABLES
    \* V4L2DecodeComponent
    mComponentState, mListener, mPendingWorks, mWorksAtDecoder, mOutputBitstreamIds,
    mIsDraining, mDecoder, mWeakThis, threadRunning,
    \* V4L2Decoder
    mState, mDecodeRequests, mPendingDecodeCbs, mDrainCb, mFrameAtDevice,
    mBlockIdToV4L2Id, mVideoFramePool,
    \* V4L2 device: its two queues, frames decoded and not yet output, command state
    inputQueue, outputAllocated, outputStreaming, outputQueue, devPending, devCmd,
    \* frame pool: a getVideoFrame request is outstanding
    poolRequest,
    \* decoder sequence and the client thread's position
    tasks, clientPc, ret, crashed,
    \* the environment this run is checked in, fixed at construction
    env,
    \* counters of the client and of the device
    nextFi, nQueued, nCalls, nResChanges,
    \* observations: listener callbacks, decode() calls and completions, commands
    workDone, errors, decodeLog, cmdLog, pushLog, lost, ran,
    \* V4L2DecodeComponent::create: the static counter, cap and mutex, the
    \* components that exist, each creating thread's position and last result,
    \* and the counter's value after its latest fetch_add
    sConcurrentInstances, kMaxConcurrentInstances, createMutex, instances,
    createPc, createRet, lastAdd,
    \* a second client thread inside queue_nb, flush_sm or drain_nb: the entry
    \* point whose check of the state it has passed, or "idle"
    entryPc

factoryVars == << sConcurrentInstances, kMaxConcurrentInstances, createMutex, instances,
                  createPc, createRet, lastAdd >>

vars == << mComponentState, mListener, mPendingWorks, mWorksAtDecoder,
           mOutputBitstreamIds, mIsDraining, mDecoder, mWeakThis, threadRunning,
           mState, mDecodeRequests, mPendingDecodeCbs, mDrainCb, mFrameAtDevice,
           mBlockIdToV4L2Id, mVideoFramePool, inputQueue, outputAllocated,
           outputStreaming, outputQueue, devPending, devCmd, poolRequest,
           tasks, clientPc, ret, crashed, env, nextFi, nQueued,
           nCalls, nResChanges, workDone, errors, decodeLog,
           cmdLog, pushLog, lost, ran,
           sConcurrentInstances, kMaxConcurrentInstances, createMutex, instances,
           createPc, createRet, lastAdd, entryPc >>

\* The whole state as one record, so that handlers compose as functions.  `ub`
\* is the outcome this step takes where the code's behaviour is undefined.
UBOutcomes == {"crash", "continue"}
State(ub) ==
    [ ub |-> ub, mComponentState |-> mComponentState, mListener |-> mListener,
      mPendingWorks |-> mPendingWorks, mWorksAtDecoder |-> mWorksAtDecoder,
      mOutputBitstreamIds |-> mOutputBitstreamIds, mIsDraining |-> mIsDraining,
      mDecoder |-> mDecoder, mWeakThis |-> mWeakThis, threadRunning |-> threadRunning,
      mState |-> mState, mDecodeRequests |-> mDecodeRequests,
      mPendingDecodeCbs |-> mPendingDecodeCbs, mDrainCb |-> mDrainCb,
      mFrameAtDevice |-> mFrameAtDevice, mBlockIdToV4L2Id |-> mBlockIdToV4L2Id,
      mVideoFramePool |-> mVideoFramePool, inputQueue |-> inputQueue,
      outputAllocated |-> outputAllocated, outputStreaming |-> outputStreaming,
      outputQueue |-> outputQueue, devPending |-> devPending, devCmd |-> devCmd,
      poolRequest |-> poolRequest,
      tasks |-> tasks, clientPc |-> clientPc, ret |-> ret, crashed |-> crashed, env |-> env,
      nextFi |-> nextFi, nQueued |-> nQueued, nCalls |-> nCalls,
      nResChanges |-> nResChanges, workDone |-> workDone, errors |-> errors,
      decodeLog |-> decodeLog, cmdLog |-> cmdLog, pushLog |-> pushLog,
      lost |-> lost, ran |-> ran ]

\* The component, the decoder and the device take the values of s.
CommitComponent(s) ==
    /\ mComponentState' = s.mComponentState /\ mListener' = s.mListener
    /\ mPendingWorks' = s.mPendingWorks /\ mWorksAtDecoder' = s.mWorksAtDecoder
    /\ mOutputBitstreamIds' = s.mOutputBitstreamIds /\ mIsDraining' = s.mIsDraining
    /\ mDecoder' = s.mDecoder /\ mWeakThis' = s.mWeakThis
    /\ threadRunning' = s.threadRunning /\ mState' = s.mState
    /\ mDecodeRequests' = s.mDecodeRequests
    /\ mPendingDecodeCbs' = s.mPendingDecodeCbs /\ mDrainCb' = s.mDrainCb
    /\ mFrameAtDevice' = s.mFrameAtDevice /\ mBlockIdToV4L2Id' = s.mBlockIdToV4L2Id
    /\ mVideoFramePool' = s.mVideoFramePool /\ inputQueue' = s.inputQueue
    /\ outputAllocated' = s.outputAllocated /\ outputStreaming' = s.outputStreaming
    /\ outputQueue' = s.outputQueue /\ devPending' = s.devPending
    /\ devCmd' = s.devCmd /\ poolRequest' = s.poolRequest
    /\ tasks' = s.tasks /\ clientPc' = s.clientPc /\ ret' = s.ret
    /\ crashed' = s.crashed /\ env' = s.env
    /\ nextFi' = s.nextFi /\ nQueued' = s.nQueued /\ nCalls' = s.nCalls
    /\ nResChanges' = s.nResChanges
    /\ workDone' = s.workDone /\ errors' = s.errors /\ decodeLog' = s.decodeLog
    /\ cmdLog' = s.cmdLog /\ pushLog' = s.pushLog /\ lost' = s.lost /\ ran' = s.ran
    /\ UNCHANGED factoryVars

Commit(s) == CommitComponent(s) /\ UNCHANGED entryPc

\* ------------------------------------------------------------- work items
\* input: "none" (empty buffer list), "buf" (one buffer held), "null" (one
\* slot, released or the nullptr placeholder), "two" (two buffers).
Work(uid, fi, flags, worklets, input) ==
    [ uid |-> uid, fi |-> fi, ts |-> uid, flags |-> flags, worklets |-> worklets,
      input |-> input, outFlags |-> {}, outBuf |-> NoBlock, result |-> "NONE",
      processed |-> 0, via |-> "" ]

\* The kinds of work a client submits: <<flags, worklets, input>>.
WorkKinds ==
    { << {}, 1, "buf" >>,          \* a frame
      << {"EOS"}, 1, "none" >>,    \* empty EOS work
      << {"EOS"}, 1, "buf" >>,     \* last frame carrying EOS
      << {"CSD"}, 1, "buf" >>,     \* codec config data
      << {"CSD"}, 1, "none" >>,    \* empty codec config
      << {}, 1, "none" >>,         \* invalid: no input, neither EOS nor CSD
      << {}, 2, "buf" >> }         \* invalid: two worklets

\* A mask that keeps one bit only.
frameIndexToBitstreamIdOneBit(frameIndex) == frameIndex % 2

frameIndexToBitstreamId(frameIndex) == frameIndex % IdModulus

isWorkDone(work) ==
    IF "EOS" \in work.flags THEN FALSE
    ELSE LET inputReleased == work.input = "null"
             outputReturned == work.outBuf # NoBlock
             ignoreOutput == "CSD" \in work.flags \/ "DROP" \in work.outFlags
         IN  inputReleased /\ (outputReturned \/ ignoreOutput)

isNoShowFrameWork(work, currOrdinal) ==
    LET smallOrdinal == work.ts < currOrdinal.ts /\ work.fi < currOrdinal.fi
        outputReturned == work.outBuf # NoBlock
        specialWork == "EOS" \in work.flags \/ "CSD" \in work.flags
                       \/ "DROP" \in work.outFlags
    IN  smallOrdinal /\ ~outputReturned /\ ~specialWork

\* std::map iterates its keys in ascending order.
RECURSIVE SortedKeys(_)
SortedKeys(keys) ==
    IF keys = {} THEN << >>
    ELSE LET k == CHOOSE x \in keys : \A y \in keys : x <= y
         IN  << k >> \o SortedKeys(keys \ {k})

MapErase(m, k) == [x \in DOMAIN m \ {k} |-> m[x]]

\* A task or callback posted to the decoder sequence.
Task(t, w, id, st, n) == [t |-> t, w |-> w, id |-> id, st |-> st, n |-> n]
NoWork == Work(0, 0, {}, 0, "none")
PostTask(s, task) == [s EXCEPT !.tasks = Append(@, task)]

\* ------------------------------------------------- component: reporting
reportError(s, error) ==
    IF s.mComponentState = "ERROR" THEN s
    ELSE LET s1 == [s EXCEPT !.mComponentState = "ERROR"]
         IN  IF ~s1.mListener THEN s1
             ELSE [s1 EXCEPT !.errors = Append(@, error)]

\* Result of a handler that returns a bool: the state and the value.
Ret(s, r) == [s |-> s, r |-> r]

reportWork(s, work) ==
    IF ~s.mListener
    THEN Ret([s EXCEPT !.lost = @ \cup {work.uid}], FALSE)
    ELSE Ret([s EXCEPT !.workDone = Append(@, << work >>)], TRUE)

reportAbandonedWorks(s) ==
    LET atDecoder == [i \in 1..Cardinality(DOMAIN s.mWorksAtDecoder) |->
                         s.mWorksAtDecoder[SortedKeys(DOMAIN s.mWorksAtDecoder)[i]]]
        abandonedWorks == s.mPendingWorks \o atDecoder
        marked == [i \in 1..Len(abandonedWorks) |->
                      [abandonedWorks[i] EXCEPT
                          !.result = "NOT_FOUND", !.via = "abandon",
                          !.input = IF @ = "none" THEN "none" ELSE "null"]]
        s1 == [s EXCEPT !.mPendingWorks = << >>, !.mWorksAtDecoder = << >>]
    IN  IF abandonedWorks = << >> THEN s1
        ELSE IF ~s1.mListener
             THEN [s1 EXCEPT !.lost = @ \cup {abandonedWorks[i].uid :
                                                 i \in 1..Len(abandonedWorks)}]
             ELSE [s1 EXCEPT !.workDone = Append(@, marked)]

\* reportWorkIfFinished() that leaves DROP_FRAME in the work it reports.
reportWorkIfFinishedKeepsDrop(s, bitstreamId, via) ==
    IF s.mIsDraining /\ Cardinality(DOMAIN s.mWorksAtDecoder) = 1 THEN Ret(s, FALSE)
    ELSE IF bitstreamId \notin DOMAIN s.mWorksAtDecoder THEN Ret(s, TRUE)
    ELSE IF ~isWorkDone(s.mWorksAtDecoder[bitstreamId]) THEN Ret(s, FALSE)
    ELSE LET w0 == s.mWorksAtDecoder[bitstreamId]
             work == [w0 EXCEPT !.result = "OK", !.processed = w0.worklets, !.via = via]
         IN  reportWork([s EXCEPT !.mWorksAtDecoder = MapErase(@, bitstreamId)], work)

\* `via` records in the reported work which caller reported it.
reportWorkIfFinished(s, bitstreamId, via) ==
    IF s.mIsDraining /\ Cardinality(DOMAIN s.mWorksAtDecoder) = 1 THEN Ret(s, FALSE)
    ELSE IF bitstreamId \notin DOMAIN s.mWorksAtDecoder THEN Ret(s, TRUE)
    ELSE IF ~isWorkDone(s.mWorksAtDecoder[bitstreamId]) THEN Ret(s, FALSE)
    ELSE LET w0 == s.mWorksAtDecoder[bitstreamId]
             work == [w0 EXCEPT !.result = "OK", !.processed = w0.worklets,
                                !.outFlags = IF "DROP" \in @ THEN {} ELSE @,
                                !.via = via]
         IN  reportWork([s EXCEPT !.mWorksAtDecoder = MapErase(@, bitstreamId)], work)

RECURSIVE pumpReportWork(_)
pumpReportWork(s) ==
    IF s.mOutputBitstreamIds = << >> THEN s
    ELSE LET res == reportWorkIfFinished(s, Head(s.mOutputBitstreamIds), "pumpReportWork")
         IN  IF ~res.r THEN res.s
             ELSE pumpReportWork([res.s EXCEPT !.mOutputBitstreamIds = Tail(@)])

\* The EOS work is handed over before the works that remain are abandoned.
reportEOSWorkFirst(s) ==
    LET eosIds == {i \in DOMAIN s.mWorksAtDecoder : "EOS" \in s.mWorksAtDecoder[i].flags}
    IN  IF eosIds = {} THEN Ret(s, FALSE)
        ELSE LET it == CHOOSE i \in eosIds : \A j \in eosIds : i <= j
                 w0 == s.mWorksAtDecoder[it]
                 eosWork == [w0 EXCEPT !.result = "OK", !.processed = w0.worklets,
                                       !.outFlags = {"EOS"}, !.via = "reportEOSWork",
                                       !.input = IF @ = "none" THEN "none" ELSE "null"]
                 res == reportWork([s EXCEPT !.mWorksAtDecoder = MapErase(@, it)], eosWork)
             IN  Ret(IF DOMAIN res.s.mWorksAtDecoder # {} THEN reportAbandonedWorks(res.s)
                     ELSE res.s, res.r)

reportEOSWork(s) ==
    LET eosIds == {i \in DOMAIN s.mWorksAtDecoder : "EOS" \in s.mWorksAtDecoder[i].flags}
    IN  IF eosIds = {} THEN Ret(s, FALSE)
        ELSE LET it == CHOOSE i \in eosIds : \A j \in eosIds : i <= j
                 w0 == s.mWorksAtDecoder[it]
                 eosWork == [w0 EXCEPT !.result = "OK", !.processed = w0.worklets,
                                       !.outFlags = {"EOS"}, !.via = "reportEOSWork",
                                       !.input = IF @ = "none" THEN "none" ELSE "null"]
                 s1 == [s EXCEPT !.mWorksAtDecoder = MapErase(@, it)]
                 s2 == IF DOMAIN s1.mWorksAtDecoder # {} THEN reportAbandonedWorks(s1)
                       ELSE s1
             IN  reportWork(s2, eosWork)

RECURSIVE reportNoShow(_, _)
reportNoShow(s, ids) ==
    IF ids = << >> THEN s
    ELSE reportNoShow(reportWorkIfFinished(s, Head(ids), "noShow").s, Tail(ids))

detectNoShowFrameWorksAndReportIfFinished(s, currOrdinal) ==
    LET noShow == {i \in DOMAIN s.mWorksAtDecoder :
                      isNoShowFrameWork(s.mWorksAtDecoder[i], currOrdinal)}
        s1 == [s EXCEPT !.mWorksAtDecoder =
                  [i \in DOMAIN @ |-> IF i \in noShow
                                       THEN [@[i] EXCEPT !.outFlags = {"DROP"}]
                                       ELSE @[i]]]
    IN  reportNoShow(s1, SortedKeys(noShow))

\* The id goes to the front of the queue instead of its back.
PushOutputIdFront(s, bitstreamId) ==
    [s EXCEPT !.mOutputBitstreamIds = << bitstreamId >> \o @,
              !.pushLog = Append(@, bitstreamId)]

\* mOutputBitstreamIds.push(bitstreamId)
PushOutputId(s, bitstreamId) ==
    [s EXCEPT !.mOutputBitstreamIds = Append(@, bitstreamId),
              !.pushLog = Append(@, bitstreamId)]

\* ------------------------------------- component: callbacks of the decoder
onDecodeDone(s, bitstreamId, status) ==
    IF bitstreamId \notin DOMAIN s.mWorksAtDecoder
    THEN \* ALOG_ASSERT is compiled out: `work` is taken from end().  kError never
         \* dereferences it; the other two write through it, which is undefined.
         IF status = "Error" THEN reportError(s, "CORRUPTED")
         ELSE IF s.ub = "crash" THEN [s EXCEPT !.crashed = TRUE]
         ELSE IF status = "Aborted" THEN pumpReportWork(PushOutputId(s, bitstreamId))
         ELSE pumpReportWork(s)
    ELSE IF status = "Aborted"
    THEN pumpReportWork(PushOutputId(
             [s EXCEPT !.mWorksAtDecoder[bitstreamId].input = "null",
                       !.mWorksAtDecoder[bitstreamId].outFlags = @ \cap {"DROP"}],
             bitstreamId))
    ELSE IF status = "Error" THEN reportError(s, "CORRUPTED")
    ELSE LET s1 == [s EXCEPT !.mWorksAtDecoder[bitstreamId].input = "null"]
         IN  pumpReportWork(IF "CSD" \in s1.mWorksAtDecoder[bitstreamId].flags
                            THEN PushOutputId(s1, bitstreamId) ELSE s1)

onOutputFrameReady(s, bitstreamId, block) ==
    IF bitstreamId \notin DOMAIN s.mWorksAtDecoder THEN reportError(s, "CORRUPTED")
    ELSE LET s1 == [s EXCEPT !.mWorksAtDecoder[bitstreamId].outBuf = block]
             work == s1.mWorksAtDecoder[bitstreamId]
             s2 == IF s1.env.codec \in {"VP8", "VP9"}
                   THEN detectNoShowFrameWorksAndReportIfFinished(
                            s1, [fi |-> work.fi, ts |-> work.ts])
                   ELSE s1
         IN  pumpReportWork(PushOutputId(s2, bitstreamId))

onDrainDone(s, status) ==
    IF status = "Aborted" THEN s
    ELSE IF status = "Error" THEN reportError(s, "CORRUPTED")
    ELSE LET res == reportEOSWork([s EXCEPT !.mIsDraining = FALSE])
         IN  IF ~res.r THEN reportError(res.s, "CORRUPTED")
             ELSE PostTask(res.s, Task("pumpPendingWorks", NoWork, 0, "", 0))

\* A decode callback is onDecodeDone bound to the component's weak pointer: it
\* fires (decodeLog) and does nothing once the pointer is invalidated.
RunDecodeCb(s, n, bitstreamId, status) ==
    LET s1 == [s EXCEPT !.decodeLog[n] = Append(@, status)]
    IN  IF s1.mWeakThis THEN onDecodeDone(s1, bitstreamId, status) ELSE s1

RunDrainCb(s, status) == IF s.mWeakThis THEN onDrainDone(s, status) ELSE s

\* ------------------------------------------------------------ the decoder
setState(s, newState) ==
    IF s.mState = newState \/ s.mState = "Error" THEN s
    ELSE [s EXCEPT !.mState = IF newState = "Draining" /\ s.mState # "Decoding"
                                THEN "Error" ELSE newState]

\* V4L2Decoder::onError; mErrorCb is reportError(C2_CORRUPTED) of the component.
onError(s) == reportError(setState(s, "Error"), "CORRUPTED")

Request(id, drain, frame, n) == [id |-> id, drain |-> drain, frame |-> frame, n |-> n]

\* The request at the head is the drain sentinel and no input buffer is queued:
\* V4L2_DEC_CMD_STOP is sent (cmdLog keeps the queued count it was sent at).
sendStop(s) ==
    LET s1 == [s EXCEPT !.mDecodeRequests = Tail(@),
                        !.cmdLog = @ \cup {Len(s.inputQueue)},
                        !.devCmd = "stopping", !.mDrainCb = TRUE]
    IN  setState(s1, "Draining")

\* QBUF of the request at the head that drops its callback instead of keeping
\* it in mPendingDecodeCbs.
queueInputDropsCb(s) ==
    LET request == Head(s.mDecodeRequests)
    IN  [s EXCEPT !.mDecodeRequests = Tail(@),
                  !.inputQueue = Append(@, request.id),
                  !.devPending = IF request.frame THEN @ \cup {request.id} ELSE @]

\* QBUF of the request at the head; the device will decode a frame from it
\* unless the buffer holds codec config only.
queueInput(s) ==
    LET request == Head(s.mDecodeRequests)
    IN  [s EXCEPT !.mDecodeRequests = Tail(@),
                  !.inputQueue = Append(@, request.id),
                  !.devPending = IF request.frame THEN @ \cup {request.id} ELSE @,
                  !.mPendingDecodeCbs = IF request.id \in DOMAIN @ THEN @
                                        ELSE (request.id :> request.n) @@ @]

\* The drain request at the head is served without waiting for the input queue.
pumpDrainRequestNoWait(s) == sendStop(s)

\* The drain request at the head waits until every input buffer is dequeued.
pumpDrainRequest(s) == IF Len(s.inputQueue) > 0 THEN s ELSE sendStop(s)

RECURSIVE pumpDecodeRequest(_)
pumpDecodeRequest(s) ==
    IF s.mState # "Decoding" \/ s.mDecodeRequests = << >> THEN s
    ELSE IF Head(s.mDecodeRequests).drain THEN pumpDrainRequest(s)
    ELSE IF Len(s.inputQueue) >= s.env.lim.inputs THEN s
    ELSE pumpDecodeRequest(queueInput(s))

\* decode() that puts its request at the front of mDecodeRequests.
decodeAtFront(s, bitstreamId, frame) ==
    LET n == Len(s.decodeLog) + 1
        s1 == [s EXCEPT !.decodeLog = Append(@, << >>)]
    IN  IF s1.mState = "Error"
        THEN PostTask(s1, Task("decodeCb", NoWork, bitstreamId, "Error", n))
        ELSE LET s2 == IF s1.mState = "Idle" THEN setState(s1, "Decoding") ELSE s1
             IN  pumpDecodeRequest(
                     [s2 EXCEPT !.mDecodeRequests =
                                    << Request(bitstreamId, FALSE, frame, n) >> \o @])

decode(s, bitstreamId, frame) ==
    LET n == Len(s.decodeLog) + 1
        s1 == [s EXCEPT !.decodeLog = Append(@, << >>)]
    IN  IF s1.mState = "Error"
        THEN PostTask(s1, Task("decodeCb", NoWork, bitstreamId, "Error", n))
        ELSE LET s2 == IF s1.mState = "Idle" THEN setState(s1, "Decoding") ELSE s1
             IN  pumpDecodeRequest(
                     [s2 EXCEPT !.mDecodeRequests =
                                    Append(@, Request(bitstreamId, FALSE, frame, n))])

drain(s) ==
    IF s.mState = "Idle" THEN PostTask(s, Task("drainCb", NoWork, 0, "Ok", 0))
    ELSE IF s.mState = "Decoding"
    THEN pumpDecodeRequest([s EXCEPT !.mDecodeRequests =
                                         Append(@, Request(0, TRUE, FALSE, 0))])
    ELSE PostTask(s, Task("drainCb", NoWork, 0, "Error", 0))

tryFetchVideoFrame(s) ==
    IF ~s.mVideoFramePool THEN onError(s)
    ELSE IF s.outputAllocated - Cardinality(s.outputQueue) = 0 THEN s
    ELSE [s EXCEPT !.poolRequest = TRUE]

RECURSIVE abortPendingDecodeCbs(_, _)
abortPendingDecodeCbs(s, ids) ==
    IF ids = << >> THEN s
    ELSE abortPendingDecodeCbs(
             RunDecodeCb(s, s.mPendingDecodeCbs[Head(ids)], Head(ids), "Aborted"),
             Tail(ids))

\* flush() that does not return the decoder to Idle.
flushKeepsState(s) ==
    IF s.mState = "Idle" \/ s.mState = "Error" THEN s
    ELSE LET s1 == abortPendingDecodeCbs(s, SortedKeys(DOMAIN s.mPendingDecodeCbs))
             s2 == [s1 EXCEPT !.mPendingDecodeCbs = << >>]
             s3 == IF s2.mDrainCb
                   THEN [RunDrainCb(s2, "Aborted") EXCEPT !.mDrainCb = FALSE]
                   ELSE s2
             s4 == [s3 EXCEPT !.outputQueue = {}, !.mFrameAtDevice = << >>,
                              !.inputQueue = << >>, !.devPending = {},
                              !.devCmd = "run"]
         IN  IF s4.mVideoFramePool THEN tryFetchVideoFrame(s4) ELSE s4

flush(s) ==
    IF s.mState = "Idle" \/ s.mState = "Error" THEN s
    ELSE LET s1 == abortPendingDecodeCbs(s, SortedKeys(DOMAIN s.mPendingDecodeCbs))
             s2 == [s1 EXCEPT !.mPendingDecodeCbs = << >>]
             s3 == IF s2.mDrainCb
                   THEN [RunDrainCb(s2, "Aborted") EXCEPT !.mDrainCb = FALSE]
                   ELSE s2
             \* streamoff of both queues drops every buffer; streamon restarts
             s4 == [s3 EXCEPT !.outputQueue = {}, !.mFrameAtDevice = << >>,
                              !.inputQueue = << >>, !.devPending = {},
                              !.devCmd = "run"]
             s5 == IF s4.mVideoFramePool THEN tryFetchVideoFrame(s4) ELSE s4
         IN  setState(s5, "Idle")

\* getVideoFramePool of the component, called through mGetPoolCb.
\* getVideoFramePool() that leaves the report of an oversized request to the
\* decoder's error callback.
getVideoFramePoolSilent(s, size) ==
    IF size = "oversized" THEN Ret(s, FALSE)
    ELSE Ret(s, TRUE)

getVideoFramePool(s, size) ==
    IF size = "oversized" THEN Ret(reportError(s, "BAD_VALUE"), FALSE)
    ELSE Ret(s, TRUE)

\* A pool that is released cancels the request it was serving.
DropPoolCallbacks(s) ==
    [s EXCEPT !.poolRequest = FALSE,
              !.tasks = SelectSeq(@, LAMBDA x : x.t # "onVideoFrameReady")]

\* changeResolution() that keeps the frames of the buffers it drops.
changeResolutionKeepsFrames(s, allocated, size) ==
    LET s1 == [s EXCEPT !.outputStreaming = FALSE, !.outputQueue = {},
                        !.outputAllocated = allocated, !.mBlockIdToV4L2Id = << >>]
    IN  IF allocated = 0 THEN Ret(s1, FALSE)
        ELSE LET s2 == DropPoolCallbacks([s1 EXCEPT !.outputStreaming = TRUE,
                                                    !.mVideoFramePool = FALSE])
                 pool == getVideoFramePool(s2, size)
             IN  IF ~pool.r THEN Ret(pool.s, FALSE)
                 ELSE Ret(tryFetchVideoFrame([pool.s EXCEPT !.mVideoFramePool = TRUE]),
                          TRUE)

\* `allocated` is what allocateBuffers returns (0: failure), `size` the coded size.
changeResolution(s, allocated, size) ==
    LET s1 == [s EXCEPT !.outputStreaming = FALSE, !.outputQueue = {},
                        !.outputAllocated = allocated, !.mFrameAtDevice = << >>,
                        !.mBlockIdToV4L2Id = << >>]
    IN  IF allocated = 0 THEN Ret(s1, FALSE)
        ELSE LET s2 == DropPoolCallbacks([s1 EXCEPT !.outputStreaming = TRUE,
                                                    !.mVideoFramePool = FALSE])
                 pool == getVideoFramePool(s2, size)
             IN  IF ~pool.r THEN Ret(pool.s, FALSE)
                 ELSE Ret(tryFetchVideoFrame([pool.s EXCEPT !.mVideoFramePool = TRUE]),
                          TRUE)

\* A block seen for the first time gets the slot numbered by the size of
\* mFrameAtDevice instead of the size of mBlockIdToV4L2Id.
onVideoFrameReadyWrongSize(s, block) ==
    IF block = NoBlock THEN onError(s)
    ELSE LET known == block \in DOMAIN s.mBlockIdToV4L2Id
             room == Cardinality(DOMAIN s.mBlockIdToV4L2Id) < s.outputAllocated
             s1 == IF ~known /\ room
                   THEN [s EXCEPT !.mBlockIdToV4L2Id =
                                      (block :> Cardinality(DOMAIN s.mFrameAtDevice)) @@ @]
                   ELSE s
             v4l2Id == IF known \/ room THEN s1.mBlockIdToV4L2Id[block] ELSE NoBlock
         IN  IF v4l2Id = NoBlock \/ v4l2Id \in s1.outputQueue THEN onError(s1)
             ELSE LET s2 == [s1 EXCEPT !.outputQueue = @ \cup {v4l2Id}]
                  IN  IF v4l2Id \in DOMAIN s2.mFrameAtDevice THEN onError(s2)
                      ELSE tryFetchVideoFrame(
                               [s2 EXCEPT !.mFrameAtDevice = (v4l2Id :> block) @@ @])

\* block = NoBlock stands for std::nullopt.
onVideoFrameReady(s, block) ==
    IF block = NoBlock THEN onError(s)
    ELSE LET known == block \in DOMAIN s.mBlockIdToV4L2Id
             room == Cardinality(DOMAIN s.mBlockIdToV4L2Id) < s.outputAllocated
             s1 == IF ~known /\ room
                   THEN [s EXCEPT !.mBlockIdToV4L2Id =
                                      (block :> Cardinality(DOMAIN @)) @@ @]
                   ELSE s
             v4l2Id == IF known \/ room THEN s1.mBlockIdToV4L2Id[block] ELSE NoBlock
         IN  \* getFreeBuffer(v4l2Id) gives nothing for a slot that is queued
             IF v4l2Id = NoBlock \/ v4l2Id \in s1.outputQueue THEN onError(s1)
             ELSE LET s2 == [s1 EXCEPT !.outputQueue = @ \cup {v4l2Id}]
                  IN  IF v4l2Id \in DOMAIN s2.mFrameAtDevice THEN onError(s2)
                      ELSE tryFetchVideoFrame(
                               [s2 EXCEPT !.mFrameAtDevice = (v4l2Id :> block) @@ @])

\* The first nIn queued input buffers are dequeued, each completing its decode.
RECURSIVE dequeueInputs(_, _)
dequeueInputs(s, nIn) ==
    IF nIn = 0 THEN s
    ELSE LET id == Head(s.inputQueue)
             s1 == [s EXCEPT !.inputQueue = Tail(@)]
             s2 == IF id \notin DOMAIN s1.mPendingDecodeCbs THEN s1
                   ELSE [RunDecodeCb(s1, s1.mPendingDecodeCbs[id], id, "Ok")
                            EXCEPT !.mPendingDecodeCbs = MapErase(@, id)]
         IN  dequeueInputs(s2, nIn - 1)

\* One dequeued output buffer: out = [slot, id, last]; id = NoBlock stands for
\* bytesused = 0.  An in-order codec (VP8, VP9) never shows a frame older than
\* one it has shown.
NoOutput == [slot |-> NoBlock, id |-> NoBlock, last |-> FALSE]

\* The output loop of serviceDeviceTask() that looks at LAST only on a buffer
\* that holds a frame.
dequeueOutputFramesOnly(s, out) ==
    IF out.slot \notin DOMAIN s.mFrameAtDevice
    THEN [s EXCEPT !.crashed = (s.ub = "crash"), !.outputQueue = @ \ {out.slot}]
    ELSE LET block == s.mFrameAtDevice[out.slot]
             shown == IF s.env.codec \in {"VP8", "VP9"}
                      THEN {i \in s.devPending : i <= out.id} ELSE {out.id}
             s1 == [s EXCEPT !.devPending = IF out.last THEN {} ELSE @ \ shown,
                             !.devCmd = IF out.last THEN "drained" ELSE @]
             s2 == IF out.id # NoBlock
                   THEN onOutputFrameReady(
                            [s1 EXCEPT !.outputQueue = @ \ {out.slot},
                                       !.mFrameAtDevice = MapErase(@, out.slot)],
                            out.id, block)
                   ELSE s1
         IN  IF s2.mDrainCb /\ out.last /\ out.id # NoBlock
             THEN setState([RunDrainCb([s2 EXCEPT !.devCmd = "run"], "Ok")
                               EXCEPT !.mDrainCb = FALSE], "Idle")
             ELSE s2

dequeueOutput(s, out) ==
    IF out.slot \notin DOMAIN s.mFrameAtDevice
    THEN \* the assertion is compiled out and end() is dereferenced: undefined
         [s EXCEPT !.crashed = (s.ub = "crash"), !.outputQueue = @ \ {out.slot}]
    ELSE LET block == s.mFrameAtDevice[out.slot]
             shown == IF s.env.codec \in {"VP8", "VP9"}
                      THEN {i \in s.devPending : i <= out.id} ELSE {out.id}
             s1 == [s EXCEPT !.devPending = IF out.last THEN {} ELSE @ \ shown,
                             !.devCmd = IF out.last THEN "drained" ELSE @]
             s2 == IF out.id # NoBlock
                   THEN onOutputFrameReady(
                            [s1 EXCEPT !.outputQueue = @ \ {out.slot},
                                       !.mFrameAtDevice = MapErase(@, out.slot)],
                            out.id, block)
                   ELSE s1
         IN  IF s2.mDrainCb /\ out.last
             THEN setState([RunDrainCb([s2 EXCEPT !.devCmd = "run"], "Ok")
                               EXCEPT !.mDrainCb = FALSE], "Idle")
             ELSE s2

\* ev = [allocated, size] for a source-change event, NoEvent for none.
NoEvent == [allocated |-> NoBlock, size |-> ""]
\* serviceDeviceTask() that does not look at the Error state.
serviceDeviceTaskInError(s, dqFails, nIn, out, ev) ==
    IF dqFails THEN onError(s)
    ELSE LET s1 == dequeueInputs(s, nIn)
             s2 == IF out = NoOutput THEN s1 ELSE dequeueOutput(s1, out)
             res == IF ev = NoEvent THEN Ret(s2, TRUE)
                    ELSE changeResolution([s2 EXCEPT !.nResChanges = @ + 1],
                                          ev.allocated, ev.size)
             s3 == IF nIn > 0
                   THEN PostTask(res.s, Task("pumpDecodeRequest", NoWork, 0, "", 0))
                   ELSE res.s
             s4 == IF out # NoOutput
                   THEN PostTask(s3, Task("tryFetchVideoFrame", NoWork, 0, "", 0))
                   ELSE s3
         IN  IF ~res.r THEN onError(res.s) ELSE s4

serviceDeviceTask(s, dqFails, nIn, out, ev) ==
    IF s.mState = "Error" THEN s
    ELSE IF dqFails THEN onError(s)
    ELSE LET s1 == dequeueInputs(s, nIn)
             s2 == IF out = NoOutput THEN s1 ELSE dequeueOutput(s1, out)
             res == IF ev = NoEvent THEN Ret(s2, TRUE)
                    ELSE changeResolution([s2 EXCEPT !.nResChanges = @ + 1],
                                          ev.allocated, ev.size)
             s3 == IF nIn > 0
                   THEN PostTask(res.s, Task("pumpDecodeRequest", NoWork, 0, "", 0))
                   ELSE res.s
             s4 == IF out # NoOutput
                   THEN PostTask(s3, Task("tryFetchVideoFrame", NoWork, 0, "", 0))
                   ELSE s3
         IN  IF ~res.r THEN onError(res.s) ELSE s4

\* ~V4L2Decoder: the decoder's weak pointers die with it, its queues are
\* streamed off and deallocated.
destroyDecoder(s) ==
    [s EXCEPT !.mDecoder = FALSE, !.mState = "Idle", !.mDecodeRequests = << >>,
              !.mPendingDecodeCbs = << >>, !.mDrainCb = FALSE,
              !.mFrameAtDevice = << >>, !.mBlockIdToV4L2Id = << >>,
              !.mVideoFramePool = FALSE, !.inputQueue = << >>,
              !.outputAllocated = 0, !.outputStreaming = FALSE, !.outputQueue = {},
              !.devPending = {}, !.devCmd = "run", !.poolRequest = FALSE]

\* ------------------------------------------- component: tasks of the client
\* One turn of the loop that hands an empty codec config work to decode() like
\* any other work and leaves its report to pumpReportWork.
pumpOneNoDirectReport(s) ==
    LET pendingWork == Head(s.mPendingWorks)
        bitstreamId == frameIndexToBitstreamId(pendingWork.fi)
        isCSDWork == "CSD" \in pendingWork.flags
        isEOSWork == "EOS" \in pendingWork.flags
        inserted == bitstreamId \notin DOMAIN s.mWorksAtDecoder
        s1 == IF inserted
              THEN [s EXCEPT !.mPendingWorks = Tail(@),
                             !.mWorksAtDecoder = (bitstreamId :> pendingWork) @@ @]
              ELSE [s EXCEPT !.mPendingWorks = Tail(@),
                             !.lost = @ \cup {pendingWork.uid}]
        s2 == IF ~inserted /\ s1.ub = "crash" THEN [s1 EXCEPT !.crashed = TRUE]
              ELSE decode(s1, bitstreamId, ~isCSDWork)
    IN  IF isEOSWork /\ ~s2.crashed THEN [drain(s2) EXCEPT !.mIsDraining = TRUE]
        ELSE s2

\* One turn of the loop of pumpPendingWorks, for the work at the head.
pumpOne(s) ==
    LET pendingWork == Head(s.mPendingWorks)
        bitstreamId == frameIndexToBitstreamId(pendingWork.fi)
        isCSDWork == "CSD" \in pendingWork.flags
        isEmptyWork == pendingWork.input = "null"
        isEOSWork == "EOS" \in pendingWork.flags
        inserted == bitstreamId \notin DOMAIN s.mWorksAtDecoder
        \* insert() keeps the entry already there and the new work is destroyed
        s1 == IF inserted
              THEN [s EXCEPT !.mPendingWorks = Tail(@),
                             !.mWorksAtDecoder = (bitstreamId :> pendingWork) @@ @]
              ELSE [s EXCEPT !.mPendingWorks = Tail(@),
                             !.lost = @ \cup {pendingWork.uid}]
        \* `work` dangles after a failed insert: reading it is undefined
        s2 == IF isEmptyWork THEN s1
              ELSE IF ~inserted /\ s1.ub = "crash" THEN [s1 EXCEPT !.crashed = TRUE]
              ELSE decode(s1, bitstreamId, ~isCSDWork)
        s3 == IF isEOSWork /\ ~s2.crashed THEN [drain(s2) EXCEPT !.mIsDraining = TRUE]
              ELSE s2
    IN  IF isCSDWork /\ isEmptyWork
        THEN reportWorkIfFinished(s3, bitstreamId, "pumpPendingWorks").s
        ELSE s3

RECURSIVE pumpLoop(_)
pumpLoop(s) ==
    IF s.mPendingWorks = << >> \/ s.mIsDraining \/ s.crashed THEN s
    ELSE pumpLoop(pumpOne(s))

pumpPendingWorks(s) == IF s.mComponentState # "RUNNING" THEN s ELSE pumpLoop(s)

queueTask(s, work) ==
    IF work.worklets # 1 \/ work.input = "two"
    THEN reportWork(s, [work EXCEPT !.result = "CORRUPTED", !.via = "queueTask"]).s
    ELSE IF work.input = "none" /\ work.flags \cap {"EOS", "CSD"} = {}
    THEN [reportError(s, "BAD_VALUE") EXCEPT !.lost = @ \cup {work.uid}]
    ELSE LET w1 == [work EXCEPT !.input = IF @ = "none" THEN "null" ELSE @]
         IN  pumpPendingWorks([s EXCEPT !.mPendingWorks = Append(@, w1)])

drainTask(s) ==
    IF s.mPendingWorks # << >>
    THEN [s EXCEPT !.mPendingWorks[Len(s.mPendingWorks)].flags = @ \cup {"EOS"}]
    ELSE IF DOMAIN s.mWorksAtDecoder # {}
    THEN [drain(s) EXCEPT !.mIsDraining = TRUE]
    ELSE s

flushTask(s) == [reportAbandonedWorks(flush(s)) EXCEPT !.mIsDraining = FALSE]

\* releaseTask() that leaves the weak pointers valid.
releaseTaskKeepsWeak(s) == destroyDecoder(s)

releaseTask(s) == destroyDecoder([s EXCEPT !.mWeakThis = FALSE])

\* stopTask() without the report of the works it abandons.
stopTaskSilent(s) ==
    releaseTask([s EXCEPT !.mPendingWorks = << >>, !.mWorksAtDecoder = << >>,
                          !.mIsDraining = FALSE])

stopTask(s) == releaseTask([reportAbandonedWorks(s) EXCEPT !.mIsDraining = FALSE])

\* setListenerTask signals `done`, and setListener_vb returns C2_OK.
setListenerTask(s, listener) ==
    [s EXCEPT !.mListener = listener, !.clientPc = "idle",
              !.ret = IF s.env.rets THEN [op |-> "setListener", status |-> "C2_OK"] ELSE @]

\* ------------------------------------------------------------ entry points
\* The value an entry point returns is kept in `ret`.
Return(s, op, status) ==
    IF s.env.rets THEN [s EXCEPT !.ret = [op |-> op, status |-> status]] ELSE s

\* start(): starts the thread, posts startTask and waits for it in clientPc.
\* `fail` is what goes wrong: "no" (nothing), "thread" (mDecoderThread.Start()
\* fails) or "task" (startTask cannot create the decoder).  Starting a thread
\* that already runs is outside the contract of the thread.
start(s, fail) ==
    IF s.mComponentState # "STOPPED" THEN Return(s, "start", "C2_BAD_STATE")
    ELSE IF s.threadRunning /\ s.ub = "crash" THEN [s EXCEPT !.crashed = TRUE]
    ELSE IF fail = "thread" THEN Return(s, "start", "C2_CORRUPTED")
    ELSE [PostTask([s EXCEPT !.threadRunning = TRUE, !.tasks = << >>, !.mWeakThis = TRUE],
                   Task("startTask", NoWork, 0, fail, 0))
             EXCEPT !.clientPc = "start"]

\* startTask creates the decoder and signals `done` with the status.
startTask(s, fail) ==
    IF fail = "task" THEN [s EXCEPT !.clientPc = "startFailed"]
    ELSE [s EXCEPT !.mDecoder = TRUE, !.mState = "Idle", !.clientPc = "started"]

\* start() after done.Wait(): the state is stored when the status is C2_OK.
started(s) ==
    IF s.clientPc = "started"
    THEN Return([s EXCEPT !.mComponentState = "RUNNING", !.clientPc = "idle"],
                "start", "C2_OK")
    ELSE Return([s EXCEPT !.clientPc = "idle"], "start", "C2_CORRUPTED")

\* stop() without the check of the component state.
stopUnchecked(s) ==
    IF s.threadRunning
    THEN [PostTask(s, Task("stopTask", NoWork, 0, "", 0)) EXCEPT !.clientPc = "stop"]
    ELSE Return([s EXCEPT !.mComponentState = "STOPPED"], "stop", "C2_OK")

\* stop() and release() post their task and join the thread: the caller waits
\* in clientPc until the task has run.
stop(s) ==
    IF s.mComponentState \notin {"RUNNING", "ERROR"}
    THEN Return(s, "stop", "C2_BAD_STATE")
    ELSE IF s.threadRunning
    THEN [PostTask(s, Task("stopTask", NoWork, 0, "", 0)) EXCEPT !.clientPc = "stop"]
    ELSE Return([s EXCEPT !.mComponentState = "STOPPED"], "stop", "C2_OK")

release(s) ==
    IF s.threadRunning
    THEN [PostTask(s, Task("releaseTask", NoWork, 0, "", 0)) EXCEPT !.clientPc = "release"]
    ELSE Return([s EXCEPT !.mComponentState = "RELEASED"], "release", "C2_OK")

\* The thread has stopped: what was still posted is dropped, the state is stored.
joined(s) ==
    Return([s EXCEPT !.threadRunning = FALSE, !.tasks = << >>, !.clientPc = "idle",
                     !.mComponentState = IF s.clientPc = "stop" THEN "STOPPED"
                                         ELSE "RELEASED"],
           s.clientPc, "C2_OK")

\* setListener_vb() without the check of mayBlock.
setListener_vbNoBlockCheck(s, listener, mayBlock) ==
    IF s.mComponentState = "RELEASED" \/ (s.mComponentState = "RUNNING" /\ listener)
    THEN Return(s, "setListener", "C2_BAD_STATE")
    ELSE IF ~s.threadRunning
    THEN Return([s EXCEPT !.mListener = listener], "setListener", "C2_OK")
    ELSE [PostTask(s, Task("setListenerTask", NoWork, 0,
                           IF listener THEN "set" ELSE "null", 0))
             EXCEPT !.clientPc = "setListener"]

setListener_vb(s, listener, mayBlock) ==
    IF s.mComponentState = "RELEASED" \/ (s.mComponentState = "RUNNING" /\ listener)
    THEN Return(s, "setListener", "C2_BAD_STATE")
    ELSE IF s.mComponentState = "RUNNING" /\ ~mayBlock
    THEN Return(s, "setListener", "C2_BLOCKING")
    ELSE IF ~s.threadRunning
    THEN Return([s EXCEPT !.mListener = listener], "setListener", "C2_OK")
    ELSE [PostTask(s, Task("setListenerTask", NoWork, 0,
                           IF listener THEN "set" ELSE "null", 0))
             EXCEPT !.clientPc = "setListener"]

queue_nb(s, kind, step) ==
    IF s.mComponentState # "RUNNING" THEN Return(s, "queue", "C2_BAD_STATE")
    ELSE LET work == Work(s.nQueued + 1, s.nextFi, kind[1], kind[2], kind[3])
         IN  Return([PostTask(s, Task("queueTask", work, 0, "", 0))
                        EXCEPT !.nQueued = @ + 1, !.nextFi = @ + step],
                    "queue", "C2_OK")

\* flush_sm() without the check of the component state.
flush_smUnchecked(s) ==
    Return(PostTask(s, Task("flushTask", NoWork, 0, "", 0)), "flush", "C2_OK")

flush_sm(s) ==
    IF s.mComponentState # "RUNNING" THEN Return(s, "flush", "C2_BAD_STATE")
    ELSE Return(PostTask(s, Task("flushTask", NoWork, 0, "", 0)), "flush", "C2_OK")

\* drain_nb() that posts drainTask for DRAIN_COMPONENT_NO_EOS as well.
drain_nbNoEosDrains(s, mode) ==
    IF s.mComponentState # "RUNNING" THEN Return(s, "drain", "C2_BAD_STATE")
    ELSE IF mode = "DRAIN_CHAIN" THEN Return(s, "drain", "C2_OMITTED")
    ELSE Return(PostTask(s, Task("drainTask", NoWork, 0, "", 0)), "drain", "C2_OK")

drain_nb(s, mode) ==
    IF s.mComponentState # "RUNNING" THEN Return(s, "drain", "C2_BAD_STATE")
    ELSE IF mode = "DRAIN_CHAIN" THEN Return(s, "drain", "C2_OMITTED")
    ELSE IF mode = "DRAIN_COMPONENT_NO_EOS" THEN Return(s, "drain", "C2_OK")
    ELSE Return(PostTask(s, Task("drainTask", NoWork, 0, "", 0)), "drain", "C2_OK")

\* The entry points that read the state and then post to mDecoderTaskRunner
\* without taking mStartStopLock.
EntryPoints == {"queue", "flush", "drain"}

\* The first half of such an entry point: the load of mComponentState.
entryCheck(s, op) ==
    IF s.mComponentState # "RUNNING" THEN Return(s, op, "C2_BAD_STATE") ELSE s

\* The second half: the use of mDecoderTaskRunner.  Once stop() or release()
\* has stopped the thread and cleared the pointer, the read races with that
\* write and the call goes through a null or dead task runner, which is
\* undefined: the process dies, or the task is dropped with what it owned.
entryPost(s, op, kind, step, mode) ==
    LET work == Work(s.nQueued + 1, s.nextFi, kind[1], kind[2], kind[3])
        posts == op # "drain" \/ mode = "DRAIN_COMPONENT_WITH_EOS"
        counted == IF op = "queue" THEN [s EXCEPT !.nQueued = @ + 1, !.nextFi = @ + step]
                   ELSE s
    IN  IF op = "drain" /\ mode = "DRAIN_CHAIN" THEN Return(s, op, "C2_OMITTED")
        ELSE IF ~posts THEN Return(s, op, "C2_OK")
        ELSE IF ~s.threadRunning
        THEN IF s.ub = "crash" THEN [s EXCEPT !.crashed = TRUE]
             ELSE Return(IF op = "queue" THEN [counted EXCEPT !.lost = @ \cup {work.uid}]
                         ELSE s, op, "C2_OK")
        ELSE Return(PostTask(counted,
                             IF op = "queue" THEN Task("queueTask", work, 0, "", 0)
                             ELSE IF op = "flush" THEN Task("flushTask", NoWork, 0, "", 0)
                             ELSE Task("drainTask", NoWork, 0, "", 0)),
                    op, "C2_OK")

ClientTasks == {"flushTask", "drainTask", "stopTask", "releaseTask"}

\* The task at the head of the decoder sequence.  A task bound to a weak
\* pointer that has been invalidated does nothing; a work it owned dies with it.
runTask(s0) ==
    LET task == Head(s0.tasks)
        \* `ran` keeps which of the client's tasks have run
        s == [s0 EXCEPT !.tasks = Tail(@),
                        !.ran = IF s0.mWeakThis /\ task.t \in ClientTasks
                                THEN @ \cup {task.t} ELSE @]
    IN  CASE task.t = "queueTask" ->
                 IF s.mWeakThis THEN queueTask(s, task.w)
                 ELSE [s EXCEPT !.lost = @ \cup {task.w.uid}]
          [] task.t = "flushTask" -> IF s.mWeakThis THEN flushTask(s) ELSE s
          [] task.t = "drainTask" -> IF s.mWeakThis THEN drainTask(s) ELSE s
          [] task.t = "stopTask" -> IF s.mWeakThis THEN stopTask(s) ELSE s
          [] task.t = "releaseTask" -> IF s.mWeakThis THEN releaseTask(s) ELSE s
          [] task.t = "startTask" -> IF s.mWeakThis THEN startTask(s, task.st) ELSE s
          [] task.t = "setListenerTask" ->
                 IF s.mWeakThis THEN setListenerTask(s, task.st = "set") ELSE s
          [] task.t = "pumpPendingWorks" -> IF s.mWeakThis THEN pumpPendingWorks(s) ELSE s
          [] task.t = "decodeCb" -> RunDecodeCb(s, task.n, task.id, task.st)
          [] task.t = "drainCb" -> RunDrainCb(s, task.st)
          [] task.t = "pumpDecodeRequest" -> IF s.mDecoder THEN pumpDecodeRequest(s) ELSE s
          [] task.t = "tryFetchVideoFrame" -> IF s.mDecoder THEN tryFetchVideoFrame(s) ELSE s
          [] task.t = "onVideoFrameReady" ->
                 IF s.mDecoder THEN onVideoFrameReady([s EXCEPT !.poolRequest = FALSE], task.id)
                 ELSE s

\* ------------------------------------------------------------------ actions
\* An environment: the codec, the steps by which the client advances the frame
\* index, the kinds of work, the entry points and the drain modes it uses,
\* whether it calls them only in the states that accept them (lawful), the
\* failures the platform may show, whether `ret` is recorded, and the limits of
\* the run.
NoFaults == {}
AllFaults == {"thread", "task", "poll", "dequeue", "allocate", "oversized"}
DrainModes == {"DRAIN_CHAIN", "DRAIN_COMPONENT_NO_EOS", "DRAIN_COMPONENT_WITH_EOS"}
WithEos == {"DRAIN_COMPONENT_WITH_EOS"}
Env(codec, steps, kinds, ops, drains, lawful, faults, rets, lim) ==
    [codec |-> codec, steps |-> steps, kinds |-> kinds, ops |-> ops, drains |-> drains,
     lawful |-> lawful, faults |-> faults, rets |-> rets, lim |-> lim]

\* The limits of a run: the client's calls, the buffers the driver grants on
\* either queue, and the source changes the device raises.
Limits(calls, inputs, outputs, resChanges) ==
    [calls |-> calls, inputs |-> inputs, outputs |-> outputs, resChanges |-> resChanges]

Lim == Limits(MaxCalls, NumInputBuffers, MaxOutputBuffers, MaxResChanges)

AllOps == {"setListener", "start", "stop", "release", "queue", "flush", "drain"}

\* The statics of create() when `count` components exist under the cap `cap`.
Creators == 1..NumCreators
InitFactory(count, cap) ==
    /\ sConcurrentInstances = count /\ kMaxConcurrentInstances = cap
    /\ createMutex = 0 /\ instances = count /\ lastAdd = count
    /\ createPc = [t \in Creators |-> "idle"] /\ createRet = [t \in Creators |-> ""]

\* The fields of the component after construction.
InitComponent(e) ==
    /\ mComponentState = "STOPPED" /\ mListener = FALSE /\ mPendingWorks = << >>
    /\ mWorksAtDecoder = << >> /\ mOutputBitstreamIds = << >> /\ mIsDraining = FALSE
    /\ mDecoder = FALSE /\ mWeakThis = FALSE /\ threadRunning = FALSE
    /\ mState = "Idle" /\ mDecodeRequests = << >> /\ mPendingDecodeCbs = << >>
    /\ mDrainCb = FALSE /\ mFrameAtDevice = << >> /\ mBlockIdToV4L2Id = << >>
    /\ mVideoFramePool = FALSE /\ inputQueue = << >> /\ outputAllocated = 0
    /\ outputStreaming = FALSE /\ outputQueue = {} /\ devPending = {}
    /\ devCmd = "run" /\ poolRequest = FALSE /\ tasks = << >> /\ clientPc = "idle"
    /\ ret = [op |-> "", status |-> ""] /\ crashed = FALSE
    /\ env = e
    /\ nextFi = 0 /\ nQueued = 0 /\ nCalls = 0 /\ nResChanges = 0
    /\ workDone = << >> /\ errors = << >> /\ decodeLog = << >> /\ cmdLog = {}
    /\ pushLog = << >> /\ lost = {} /\ ran = {}
    /\ entryPc = "idle"

\* The state after construction: the component is the one component of its
\* process and the cap has its default, -1.
InitWith(e) ==
    /\ InitFactory(1, 0 - 1)
    /\ InitComponent(e)

FrameKinds == { << {}, 1, "buf" >>, << {"EOS"}, 1, "none" >>, << {"CSD"}, 1, "buf" >> }

Init == InitWith(Env("H264", {1}, FrameKinds, AllOps, WithEos, TRUE, NoFaults, FALSE, Lim))

\* The client thread is free to make its next call.
CanCall(op) == clientPc = "idle" /\ ~crashed /\ op \in env.ops

\* mStartStopLock is not held by the second client thread.
LockFree == entryPc \notin {"stop", "release"}

\* queue, flush, drain, stop and release draw on the budget of calls.
Budget(s) == [s EXCEPT !.nCalls = @ + 1]

SetListener ==
    /\ CanCall("setListener")
    /\ \E listener \in BOOLEAN, mayBlock \in BOOLEAN :
           /\ env.lawful => (listener /\ mayBlock /\ ~mListener
                              /\ mComponentState = "STOPPED")
           /\ Commit(setListener_vb(State("continue"), listener, mayBlock))

\* The ways start() may fail.
StartFailures == {"no"} \cup ({"thread", "task"} \cap env.faults)

Start ==
    /\ CanCall("start") /\ LockFree
    /\ env.lawful => (mListener /\ mComponentState = "STOPPED")
    /\ \E fail \in StartFailures, ub \in UBOutcomes : Commit(start(State(ub), fail))

Started ==
    /\ clientPc \in {"started", "startFailed"} /\ ~crashed
    /\ Commit(started(State("continue")))

Stop ==
    /\ CanCall("stop") /\ LockFree /\ nCalls < env.lim.calls
    /\ env.lawful => mComponentState \in {"RUNNING", "ERROR"}
    /\ Commit(Budget(stop(State("continue"))))

Release ==
    /\ CanCall("release") /\ LockFree /\ nCalls < env.lim.calls
    /\ env.lawful => mComponentState # "RELEASED"
    /\ Commit(Budget(release(State("continue"))))

Joined ==
    /\ clientPc \in {"stop", "release"} /\ ~crashed
    /\ \A i \in 1..Len(tasks) : tasks[i].t \notin {"stopTask", "releaseTask"}
    /\ Commit(joined(State("continue")))

Queue ==
    /\ CanCall("queue") /\ nCalls < env.lim.calls
    /\ env.lawful => mComponentState = "RUNNING"
    /\ \E kind \in env.kinds, step \in env.steps :
           /\ step <= MaxFrameIndex - nextFi
           /\ Commit(Budget(queue_nb(State("continue"), kind, step)))

Flush ==
    /\ CanCall("flush") /\ nCalls < env.lim.calls
    /\ env.lawful => mComponentState = "RUNNING"
    /\ Commit(Budget(flush_sm(State("continue"))))

Drain ==
    /\ CanCall("drain") /\ nCalls < env.lim.calls
    /\ env.lawful => mComponentState = "RUNNING"
    /\ \E mode \in env.drains : Commit(Budget(drain_nb(State("continue"), mode)))

\* A second client thread enters queue_nb, flush_sm or drain_nb and loads the
\* state.
EntryCheck ==
    /\ entryPc = "idle" /\ ~crashed /\ nCalls < env.lim.calls
    /\ \E op \in EntryPoints \cap env.ops :
           /\ CommitComponent(Budget(entryCheck(State("continue"), op)))
           /\ entryPc' = IF mComponentState = "RUNNING" THEN op ELSE "idle"

\* The second thread goes on to post its task.
EntryPost ==
    /\ entryPc # "idle" /\ ~crashed
    /\ \E kind \in env.kinds, step \in env.steps, mode \in env.drains, ub \in UBOutcomes :
           /\ step <= MaxFrameIndex - nextFi
           /\ CommitComponent(entryPost(State(ub), entryPc, kind, step, mode))
           /\ entryPc' = "idle"

RunTask ==
    /\ threadRunning /\ ~crashed /\ tasks # << >>
    /\ \E ub \in UBOutcomes : Commit(runTask(State(ub)))

\* What the device may hand back in one service of its queues.
DeviceOutputs ==
    IF ~outputStreaming THEN {NoOutput}
    ELSE {NoOutput}
         \cup {[slot |-> sl, id |-> i, last |-> l] :
                  sl \in outputQueue, i \in devPending,
                  l \in {FALSE} \cup {devCmd = "stopping"}}
         \cup {[slot |-> sl, id |-> NoBlock, last |-> TRUE] :
                  sl \in {x \in outputQueue : devCmd = "stopping"}}

\* A source change is raised by an input buffer, which the driver holds.
DeviceEvents ==
    {NoEvent} \cup {[allocated |-> a, size |-> sz] :
                       a \in {x \in {0, env.lim.outputs} :
                                  /\ nResChanges < env.lim.resChanges /\ inputQueue # << >>
                                  /\ x = 0 => "allocate" \in env.faults},
                       sz \in {"fits"} \cup ({"oversized"} \cap env.faults)}

\* The poll thread posts serviceDeviceTask, or V4L2Decoder::onError when the
\* poll fails, behind the tasks already on the decoder sequence; the task reads
\* the device when it runs.
ServiceDevice ==
    /\ mDecoder /\ threadRunning /\ ~crashed /\ tasks = << >>
    /\ \E pollFails \in {FALSE, "poll" \in env.faults} :
           IF pollFails THEN mState # "Error" /\ Commit(onError(State("continue")))
           ELSE \E dqFails \in {FALSE, "dequeue" \in env.faults}, nIn \in 0..Len(inputQueue),
                   out \in DeviceOutputs, ev \in DeviceEvents, ub \in UBOutcomes :
                    /\ dqFails => (nIn = 0 /\ out = NoOutput /\ ev = NoEvent
                                     /\ inputQueue # << >>)
                    /\ dqFails \/ nIn > 0 \/ out # NoOutput \/ ev # NoEvent
                    /\ Commit(serviceDeviceTask(State(ub), dqFails, nIn, out, ev))

\* Blocks of the pool that neither the decoder nor a work holds.
FreeBlocks ==
    (0..(outputAllocated - 1))
        \ ({mFrameAtDevice[x] : x \in DOMAIN mFrameAtDevice}
            \cup {mWorksAtDecoder[x].outBuf : x \in DOMAIN mWorksAtDecoder})

\* The frame pool answers the outstanding request on the decoder sequence.
PoolReady ==
    /\ mDecoder /\ threadRunning /\ ~crashed /\ poolRequest
    /\ \A i \in 1..Len(tasks) : tasks[i].t # "onVideoFrameReady"
    /\ \E block \in FreeBlocks :
           Commit(PostTask(State("continue"), Task("onVideoFrameReady", NoWork, block, "", 0)))

Next ==
    \/ SetListener \/ Start \/ Started \/ Stop \/ Release \/ Joined
    \/ Queue \/ Flush \/ Drain
    \/ RunTask \/ ServiceDevice \/ PoolReady

Spec == Init /\ [][Next]_vars

\* ------------------------------------------------------- further environments
\* Every kind of work, the invalid ones included.
InitAll == InitWith(Env("H264", {1}, WorkKinds, AllOps, WithEos, TRUE, NoFaults, FALSE, Lim))
SpecAll == InitAll /\ [][Next]_vars

\* A client whose frame indices may advance by 2^30, and whose drain calls ask
\* for DRAIN_CHAIN: no drainTask runs.
InitWrap ==
    InitWith(Env("H264", {1, IdModulus}, {<< {}, 1, "buf" >>, << {"EOS"}, 1, "none" >>},
                 AllOps, {"DRAIN_CHAIN"}, TRUE, NoFaults, FALSE, Lim))
SpecWrap == InitWrap /\ [][Next]_vars

\* A client that queues frames and EOS works and flushes, and whose drain calls
\* ask for no EOS: no drainTask runs.
InitFlush ==
    InitWith(Env("H264", {1}, {<< {}, 1, "buf" >>, << {"EOS"}, 1, "none" >>}, AllOps,
                 {"DRAIN_COMPONENT_NO_EOS"}, TRUE, NoFaults, FALSE, Lim))
SpecFlush == InitFlush /\ [][Next]_vars

\* Frames and codec config, with a pool of several blocks and repeated source
\* changes, for a codec that reorders frames and for one that hides frames.
InitPool ==
    \E codec \in {"H264", "VP9"} :
        InitWith(Env(codec, {1}, {<< {}, 1, "buf" >>, << {"CSD"}, 1, "buf" >>}, AllOps,
                     WithEos, TRUE, NoFaults, FALSE,
                     Limits(PoolCalls, PoolInputBuffers, PoolOutputBuffers, PoolResChanges)))
SpecPool == InitPool /\ [][Next]_vars

\* Frames of a codec that hides frames, with two input buffers: the device may
\* show a later frame while it still holds the input buffer of an earlier one.
InitNoShow ==
    InitWith(Env("VP9", {1}, {<< {}, 1, "buf" >>}, AllOps, WithEos, TRUE, NoFaults, FALSE,
                 Limits(PoolCalls, NoShowInputBuffers, PoolOutputBuffers, PoolResChanges)))
SpecNoShow == InitNoShow /\ [][Next]_vars

\* Two client threads: one starts, stops and releases the component while the
\* other is inside queue_nb, flush_sm or drain_nb.
NextRace == Next \/ EntryCheck \/ EntryPost
InitRace ==
    InitWith(Env("H264", {1}, {<< {}, 1, "buf" >>}, AllOps, WithEos, TRUE, NoFaults, FALSE,
                 Lim))
SpecRace == InitRace /\ [][NextRace]_vars

\* stop() or release() called by the second client thread: under
\* mStartStopLock it checks the state (stop only), posts its task and joins the
\* decoder thread, or stores the state at once when no thread runs.
teardownPost(s, op) ==
    IF op = "stop" /\ s.mComponentState \notin {"RUNNING", "ERROR"} THEN s
    ELSE IF s.threadRunning THEN PostTask(s, Task(op \o "Task", NoWork, 0, "", 0))
    ELSE [s EXCEPT !.mComponentState = IF op = "stop" THEN "STOPPED" ELSE "RELEASED"]

\* Its thread is joined: what was still posted is dropped, the state is stored.
teardownJoined(s, op) ==
    [s EXCEPT !.threadRunning = FALSE, !.tasks = << >>,
              !.mComponentState = IF op = "stop" THEN "STOPPED" ELSE "RELEASED"]

OtherTeardown ==
    /\ entryPc = "idle" /\ ~crashed /\ nCalls < env.lim.calls
    /\ clientPc \notin {"start", "started", "startFailed", "stop", "release"}
    /\ \E op \in {"stop", "release"} \cap env.ops :
           /\ CommitComponent(Budget(teardownPost(State("continue"), op)))
           /\ entryPc' = IF threadRunning
                            /\ (op = "stop" => mComponentState \in {"RUNNING", "ERROR"})
                         THEN op ELSE "idle"

OtherJoined ==
    /\ entryPc \in {"stop", "release"} /\ ~crashed
    /\ \A i \in 1..Len(tasks) : tasks[i].t \notin {"stopTask", "releaseTask"}
    /\ CommitComponent(teardownJoined(State("continue"), entryPc))
    /\ entryPc' = "idle"

\* Two client threads: one calls any entry point in any state, setListener_vb
\* included, while the other stops or releases the component.
NextListener == Next \/ OtherTeardown \/ OtherJoined
InitListener ==
    InitWith(Env("H264", {1}, {<< {}, 1, "buf" >>}, AllOps, WithEos, FALSE, NoFaults, FALSE,
                 Limits(AnyCalls, NumInputBuffers, MaxOutputBuffers, MaxResChanges)))
SpecListener == InitListener /\ [][NextListener]_vars

AnyLim == Limits(AnyCalls, NumInputBuffers, MaxOutputBuffers, MaxResChanges)

\* A client that calls any entry point in any state, with any drain mode, and
\* looks at what the calls return.
InitAny ==
    InitWith(Env("H264", {1}, {<< {}, 1, "buf" >>}, AllOps,
                 DrainModes, FALSE, NoFaults, TRUE, AnyLim))
SpecAny == InitAny /\ [][Next]_vars

\* The same client with a device that may fail: buffers that cannot be
\* dequeued or allocated, an oversized coded size, a decoder that cannot start.
InitFault ==
    InitWith(Env("H264", {1}, {<< {}, 1, "buf" >>}, AllOps,
                 WithEos, FALSE, AllFaults, TRUE, AnyLim))
SpecFault == InitFault /\ [][Next]_vars

\* The same client with a device whose only failure is a source change to a
\* coded size above 4096*4096.
InitOversize ==
    InitWith(Env("H264", {1}, {<< {}, 1, "buf" >>}, AllOps,
                 WithEos, FALSE, {"oversized"}, TRUE, AnyLim))
SpecOversize == InitOversize /\ [][Next]_vars

\* A client that keeps to the states, with a device whose polling may fail: the
\* decoder may be in its Error state while the component runs.
InitPollFault ==
    InitWith(Env("H264", {1}, {<< {}, 1, "buf" >>, << {"EOS"}, 1, "none" >>}, AllOps,
                 WithEos, TRUE, {"poll"}, FALSE, Lim))
SpecPollFault == InitPollFault /\ [][Next]_vars

\* A client that queues frames and empty codec config works, with and without
\* the EOS flag.
InitConfig ==
    InitWith(Env("H264", {1},
                 {<< {}, 1, "buf" >>, << {"CSD"}, 1, "none" >>, << {"CSD", "EOS"}, 1, "none" >>},
                 AllOps, WithEos, TRUE, NoFaults, FALSE, Lim))
SpecConfig == InitConfig /\ [][Next]_vars

\* ------------------------------------------------- create() and destruction
\* The test of create() on the value it loads from the counter.
limitReachedOffByOne(count) ==
    kMaxConcurrentInstances >= 0 /\ count > kMaxConcurrentInstances

limitReached(count) ==
    kMaxConcurrentInstances >= 0 /\ count >= kMaxConcurrentInstances

\* Components whose destructor has not finished.
Destroying == {t \in Creators : createPc[t] = "dtor"}
Objects == instances + Cardinality(Destroying)

\* The component of the other runs: create() and the destructor's counter
\* update touch none of its fields.
ComponentState ==
    << mComponentState, mListener, mPendingWorks, mWorksAtDecoder,
       mOutputBitstreamIds, mIsDraining, mDecoder, mWeakThis, threadRunning,
       mState, mDecodeRequests, mPendingDecodeCbs, mDrainCb, mFrameAtDevice,
       mBlockIdToV4L2Id, mVideoFramePool, inputQueue, outputAllocated,
       outputStreaming, outputQueue, devPending, devCmd, poolRequest,
       tasks, clientPc, ret, crashed, env, nextFi, nQueued,
       nCalls, nResChanges, workDone, errors, decodeLog,
       cmdLog, pushLog, lost, ran, entryPc >>

\* create() returns `r` on thread t and the lock_guard releases the mutex.
CreateReturns(t, r) ==
    /\ createPc' = [createPc EXCEPT ![t] = "idle"]
    /\ createRet' = [createRet EXCEPT ![t] = r]
    /\ createMutex' = 0

\* Thread t enters create() and takes the static mutex.
CreateLock(t) ==
    /\ UNCHANGED ComponentState
    /\ createPc[t] = "idle" /\ createMutex = 0 /\ Objects < MaxInstances
    /\ createMutex' = t /\ createPc' = [createPc EXCEPT ![t] = "check"]
    /\ UNCHANGED << sConcurrentInstances, kMaxConcurrentInstances, instances,
                    createRet, lastAdd >>

\* The load of the counter and the test of the cap, then the construction of
\* the interface.  The decrements of the destructors are relaxed and not
\* ordered with the mutex: the load reads the counter as it is or as it was at
\* any time since the latest increment.
CreateCheck(t) ==
    /\ UNCHANGED ComponentState
    /\ createPc[t] = "check"
    /\ \E seen \in sConcurrentInstances..lastAdd, intfOk \in BOOLEAN :
           IF limitReached(seen) THEN CreateReturns(t, "limit")
           ELSE IF ~intfOk THEN CreateReturns(t, "interface")
           ELSE /\ createPc' = [createPc EXCEPT ![t] = "construct"]
                /\ UNCHANGED << createRet, createMutex >>
    /\ UNCHANGED << sConcurrentInstances, kMaxConcurrentInstances, instances, lastAdd >>

\* The constructor: fetch_add on the counter; create() returns the component.
CreateConstruct(t) ==
    /\ UNCHANGED ComponentState
    /\ createPc[t] = "construct"
    /\ sConcurrentInstances' = sConcurrentInstances + 1
    /\ lastAdd' = sConcurrentInstances + 1
    /\ instances' = instances + 1
    /\ CreateReturns(t, "component")
    /\ UNCHANGED kMaxConcurrentInstances

\* The last reference to a component is dropped on thread t: its destructor
\* starts, without the mutex.
DestroyBegin(t) ==
    /\ UNCHANGED ComponentState
    /\ createPc[t] = "idle" /\ instances > 0
    /\ instances' = instances - 1
    /\ createPc' = [createPc EXCEPT ![t] = "dtor"]
    /\ UNCHANGED << sConcurrentInstances, kMaxConcurrentInstances, createMutex,
                    createRet, lastAdd >>

\* The destructor ends: fetch_sub on the counter.
DestroyEnd(t) ==
    /\ UNCHANGED ComponentState
    /\ createPc[t] = "dtor"
    /\ sConcurrentInstances' = sConcurrentInstances - 1
    /\ createPc' = [createPc EXCEPT ![t] = "idle"]
    /\ UNCHANGED << kMaxConcurrentInstances, createMutex, instances, createRet, lastAdd >>

NextCreate ==
    \E t \in Creators :
        \/ CreateLock(t) \/ CreateCheck(t) \/ CreateConstruct(t)
        \/ DestroyBegin(t) \/ DestroyEnd(t)

\* A process in which no component exists yet, for each value of the cap.
InitCreate ==
    /\ InitComponent(Env("H264", {1}, FrameKinds, {}, WithEos, TRUE, NoFaults, FALSE, Lim))
    /\ \E cap \in (0 - 1)..MaxCap : InitFactory(0, cap)
SpecCreate == InitCreate /\ [][NextCreate]_vars

\* ------------------------------------------------------------------ claims
\* The works handed to the listener, in the order of the calls of onWorkDone.
RECURSIVE Flatten(_)
Flatten(batches) ==
    IF batches = << >> THEN << >> ELSE Head(batches) \o Flatten(Tail(batches))

Reported == Flatten(workDone)

ReportCount(uid) == Cardinality({i \in DOMAIN Reported : Reported[i].uid = uid})

\* The works the component holds.
Outstanding ==
    {mPendingWorks[i] : i \in DOMAIN mPendingWorks}
        \cup {mWorksAtDecoder[i] : i \in DOMAIN mWorksAtDecoder}

\* stop() or release() has returned: nothing runs on the decoder sequence.
Quiescent ==
    clientPc = "idle" /\ ~threadRunning /\ mComponentState \in {"STOPPED", "RELEASED"}

\* C1: no work is handed to the listener twice, and once stop() or release()
\* has returned every work that queue_nb accepted has been handed to it once.
C1_SingleEmission ==
    /\ \A uid \in 1..nQueued : ReportCount(uid) <= 1
    /\ Quiescent => \A uid \in 1..nQueued : ReportCount(uid) = 1

\* The task at the head is flushTask and this step runs it.
FlushTaskRuns ==
    /\ tasks # << >> /\ Head(tasks).t = "flushTask" /\ mWeakThis
    /\ tasks' = Tail(tasks) /\ clientPc' = clientPc

\* C2: a step that runs flushTask hands the listener exactly one batch, which
\* holds every work outstanding when the task started, each with NOT_FOUND
\* (and no batch when nothing was outstanding).
C2_FlushSingleBatch ==
    [][FlushTaskRuns =>
          IF Outstanding = {} THEN workDone' = workDone
          ELSE /\ Len(workDone') = Len(workDone) + 1
               /\ SubSeq(workDone', 1, Len(workDone)) = workDone
               /\ LET batch == workDone'[Len(workDone')]
                  IN  /\ {batch[i].uid : i \in DOMAIN batch} = {w.uid : w \in Outstanding}
                      /\ \A i \in DOMAIN batch : batch[i].result = "NOT_FOUND"]_vars

\* C3: once a flush has run the component is not driven to Error, and no
\* completion is delivered for a work that is no longer at the decoder.
C3_FlushKeepsRunning ==
    "flushTask" \in ran => (mComponentState # "ERROR" /\ ~crashed)

\* The bitstream id of a work.
IdOf(work) == frameIndexToBitstreamId(work.fi)

\* The works reported by pumpReportWork, in the order of their reports.
PumpReported == SelectSeq(Reported, LAMBDA w : w.via = "pumpReportWork")

\* A work was reported as a no-show frame, without an output of its own.
NoShowReported == \E i \in DOMAIN Reported : Reported[i].via = "noShow"

Pushed(id) == \E i \in DOMAIN pushLog : pushLog[i] = id
FirstPush(id) == CHOOSE i \in DOMAIN pushLog : pushLog[i] = id /\ \A j \in 1..(i - 1) : pushLog[j] # id

\* The works of `reports` were reported in the order their ids were first pushed.
InPushOrder(reports) ==
    /\ \A i \in DOMAIN reports : Pushed(IdOf(reports[i]))
    /\ \A i, j \in DOMAIN reports :
           i < j => FirstPush(IdOf(reports[i])) < FirstPush(IdOf(reports[j]))

\* C4 as stated: any two works reported one before the other had their ids
\* pushed onto mOutputBitstreamIds in that order.
C4_ReportOrder == InPushOrder(Reported)

\* C4 amended: the works that pumpReportWork reports are reported in the order
\* their ids were pushed onto mOutputBitstreamIds.
C4_PumpReportOrder == InPushOrder(PumpReported)

\* Two works came out of pumpReportWork in the reverse of their submission.
C4_Witness ==
    \E i, j \in DOMAIN PumpReported : i < j /\ PumpReported[i].uid > PumpReported[j].uid

\* C5: when an EOS work is reported, every work submitted before it has been
\* reported already, so none of them is reported after it.
C5_EosTerminal ==
    \A p \in DOMAIN Reported :
        Reported[p].via = "reportEOSWork" =>
            \A uid \in 1..(Reported[p].uid - 1) :
                \E q \in 1..(p - 1) : Reported[q].uid = uid

\* An EOS work was reported after a work submitted before it.
C5_Witness ==
    \E p \in DOMAIN Reported : Reported[p].via = "reportEOSWork" /\ Reported[p].uid > 1

\* decodeLog[n] gained the status `st` in this step.
Completes(n, st) ==
    /\ Len(decodeLog'[n]) = Len(decodeLog[n]) + 1
    /\ decodeLog'[n][Len(decodeLog'[n])] = st

\* C6: a decode() call completes at most once, with Aborted only in a step that
\* runs a flush, and when flushTask has run every decode() call issued before it
\* has completed.
C6_OneCompletionPerDecode ==
    [][/\ \A n \in DOMAIN decodeLog' : Len(decodeLog'[n]) <= 1
       /\ \A n \in DOMAIN decodeLog : Completes(n, "Aborted") => FlushTaskRuns
       /\ FlushTaskRuns => \A n \in DOMAIN decodeLog' : Len(decodeLog'[n]) = 1]_vars

\* C7: every work handed to the listener holds no input buffer.
C7_InputReleased ==
    \A p \in DOMAIN Reported : Reported[p].input \in {"null", "none"}

\* C8 as stated: the works the component holds have pairwise distinct ids.
C8_IdUniqueness ==
    \A w1, w2 \in Outstanding : w1.uid # w2.uid => IdOf(w1) # IdOf(w2)

\* C8 amended: works the component holds whose frame indices differ by less
\* than 2^30 have distinct ids.
C8_IdUniquenessInWindow ==
    \A w1, w2 \in Outstanding :
        (w1.uid # w2.uid /\ w1.fi - w2.fi < IdModulus /\ w2.fi - w1.fi < IdModulus)
            => IdOf(w1) # IdOf(w2)

\* The component holds two works whose frame indices differ by less than 2^30.
C8_Witness ==
    \E w1, w2 \in Outstanding : w1.uid # w2.uid /\ w1.fi < w2.fi /\ w2.fi - w1.fi < IdModulus

\* A drain request is at the head of the FIFO while an input buffer is queued.
SentinelWaits ==
    mDecodeRequests # << >> /\ Head(mDecodeRequests).drain /\ Len(inputQueue) > 0

\* C9: STOP is sent with no input buffer queued only, and while a drain request
\* waits at the head for the input queue, it stays at the head of an unchanged
\* FIFO prefix and no further input buffer is queued.
C9_DrainSafety ==
    [][/\ cmdLog' \subseteq {0}
       /\ (SentinelWaits /\ mDecoder') =>
              /\ Len(mDecodeRequests') >= Len(mDecodeRequests)
              /\ SubSeq(mDecodeRequests', 1, Len(mDecodeRequests)) = mDecodeRequests
              /\ Len(inputQueue') <= Len(inputQueue)
              /\ devCmd' = devCmd]_vars

\* STOP has been sent for a drain that followed a decode.
C9_Witness == cmdLog = {0} /\ mState = "Draining" /\ decodeLog # << >>

\* C10: mBlockIdToV4L2Id has at most as many entries as output buffers are
\* allocated and is injective, every slot of mFrameAtDevice is assigned in it,
\* and an entry keeps its slot until a resolution change (or the decoder's end).
C10_SlotInvariant ==
    [][/\ Cardinality(DOMAIN mBlockIdToV4L2Id') <= outputAllocated'
       /\ \A b1, b2 \in DOMAIN mBlockIdToV4L2Id' :
              mBlockIdToV4L2Id'[b1] = mBlockIdToV4L2Id'[b2] => b1 = b2
       /\ \A slot \in DOMAIN mFrameAtDevice' :
              \E b \in DOMAIN mBlockIdToV4L2Id' : mBlockIdToV4L2Id'[b] = slot
       /\ Cardinality(DOMAIN mFrameAtDevice') <= outputAllocated'
       /\ (nResChanges' = nResChanges /\ mDecoder') =>
              \A b \in DOMAIN mBlockIdToV4L2Id :
                  b \in DOMAIN mBlockIdToV4L2Id' /\ mBlockIdToV4L2Id'[b] = mBlockIdToV4L2Id[b]]_vars

\* After a second resolution change two blocks are assigned and both are queued.
C10_Witness ==
    /\ nResChanges >= 2 /\ Cardinality(DOMAIN mBlockIdToV4L2Id) >= 2
    /\ Cardinality(DOMAIN mFrameAtDevice) >= 2

\* What an entry point returned.
Returned(op, status) == [op |-> op, status |-> status]

\* C11: the component state changes only from STOPPED to RUNNING when start()
\* returns C2_OK, from RUNNING or ERROR to STOPPED when stop() returns C2_OK,
\* to ERROR by a report of an error, and to RELEASED when release() returns;
\* nothing leaves RELEASED, and ERROR is left only for STOPPED or RELEASED.
C11_StateTransitions ==
    [][mComponentState' # mComponentState =>
          \/ /\ mComponentState = "STOPPED" /\ mComponentState' = "RUNNING"
             /\ ret' = Returned("start", "C2_OK")
          \/ /\ mComponentState \in {"RUNNING", "ERROR"} /\ mComponentState' = "STOPPED"
             /\ ret' = Returned("stop", "C2_OK")
          \/ /\ mComponentState # "RELEASED" /\ mComponentState' = "ERROR"
             /\ (mListener => Len(errors') = Len(errors) + 1)
          \/ /\ mComponentState' = "RELEASED"
             /\ ret' = Returned("release", "C2_OK")]_vars

\* The fields of the component, the decoder sequence and the caller's position.
ComponentVars ==
    << mComponentState, mListener, mPendingWorks, mWorksAtDecoder, mOutputBitstreamIds,
       mIsDraining, mDecoder, mWeakThis, threadRunning, tasks, clientPc >>

\* This step is a call that returns C2_BAD_STATE and leaves the component alone.
Rejected(op) ==
    ret' = Returned(op, "C2_BAD_STATE") /\ UNCHANGED ComponentVars /\ workDone' = workDone

\* C12: queue, drain and flush in a state other than RUNNING, start in a state
\* other than STOPPED and stop in a state other than RUNNING and ERROR return
\* C2_BAD_STATE, post no task and change neither the component state nor a
\* collection of works.
C12_StateValidation ==
    [][/\ (Queue /\ mComponentState # "RUNNING") => Rejected("queue")
       /\ (Drain /\ mComponentState # "RUNNING") => Rejected("drain")
       /\ (Flush /\ mComponentState # "RUNNING") => Rejected("flush")
       /\ (Start /\ mComponentState # "STOPPED") => Rejected("start")
       /\ (Stop /\ mComponentState \notin {"RUNNING", "ERROR"}) => Rejected("stop")]_vars

\* queue was rejected after a stop, and flush in the RELEASED state.
C12_Witness ==
    \/ ret = Returned("queue", "C2_BAD_STATE") /\ "stopTask" \in ran
    \/ ret = Returned("flush", "C2_BAD_STATE") /\ mComponentState = "RELEASED"

\* This step is setListener_vb(listener, mayBlock) called in the RUNNING state.
SetListenerRunning(listener, mayBlock) ==
    /\ CanCall("setListener") /\ mComponentState = "RUNNING"
    /\ Commit(setListener_vb(State("continue"), listener, mayBlock))

\* This step posts setListenerTask for `listener` and makes the caller wait.
PostsListener(listener) ==
    /\ Len(tasks') = Len(tasks) + 1
    /\ tasks'[Len(tasks')].t = "setListenerTask"
    /\ tasks'[Len(tasks')].st = IF listener THEN "set" ELSE "null"
    /\ clientPc' = "setListener"

\* This step returns `status` from setListener_vb and changes nothing else.
ListenerRefused(status) ==
    /\ ret' = Returned("setListener", status)
    /\ mListener' = mListener /\ UNCHANGED ComponentVars

\* This step runs setListenerTask.
SetListenerTaskRuns ==
    /\ tasks # << >> /\ Head(tasks).t = "setListenerTask" /\ mWeakThis
    /\ tasks' = Tail(tasks) /\ clientPc = "setListener"

\* The listener that the task at the head installs.
HeadListener == Head(tasks).st = "set"

\* C13 as stated: in the RUNNING state setListener_vb with may_block installs
\* any listener and returns C2_OK, and without may_block returns C2_BLOCKING.
C13_SetListenerMayBlock ==
    [][/\ \A listener, mayBlock \in BOOLEAN :
              SetListenerRunning(listener, mayBlock) =>
                  IF mayBlock THEN PostsListener(listener)
                  ELSE ListenerRefused("C2_BLOCKING")
       /\ SetListenerTaskRuns =>
              mListener' = HeadListener /\ ret' = Returned("setListener", "C2_OK")]_vars

\* C13: in the RUNNING state setListener_vb returns C2_BAD_STATE for a non-null
\* listener whatever may_block is; for a null listener it returns C2_BLOCKING
\* without may_block, and with may_block it clears the listener on the decoder
\* sequence and returns C2_OK.
C13_SetListenerNullOnly ==
    [][/\ \A listener, mayBlock \in BOOLEAN :
              SetListenerRunning(listener, mayBlock) =>
                  IF listener THEN ListenerRefused("C2_BAD_STATE")
                  ELSE IF mayBlock THEN PostsListener(FALSE)
                  ELSE ListenerRefused("C2_BLOCKING")
       /\ SetListenerTaskRuns =>
              mListener' = HeadListener /\ ret' = Returned("setListener", "C2_OK")]_vars

\* The listener was cleared while the component runs.
C13_Witness ==
    mComponentState = "RUNNING" /\ ret = Returned("setListener", "C2_OK") /\ ~mListener

\* This step is drain_nb(DRAIN_COMPONENT_NO_EOS).
DrainNoEos ==
    /\ CanCall("drain") /\ nCalls < env.lim.calls
    /\ Commit(Budget(drain_nb(State("continue"), "DRAIN_COMPONENT_NO_EOS")))

\* C14 as stated: drain_nb(DRAIN_COMPONENT_NO_EOS) returns C2_OK in every state
\* of the component, posts no task and changes no field of the component.
C14_DrainNoEosAlwaysOk ==
    [][DrainNoEos => ret' = Returned("drain", "C2_OK") /\ UNCHANGED ComponentVars]_vars

\* C14: drain_nb(DRAIN_COMPONENT_NO_EOS) posts no task and changes no field of
\* the component; it returns C2_OK in the RUNNING state and C2_BAD_STATE in
\* every other state.
C14_DrainNoEosNoEffect ==
    [][DrainNoEos =>
          /\ UNCHANGED ComponentVars
          /\ ret' = Returned("drain", IF mComponentState = "RUNNING" THEN "C2_OK"
                                      ELSE "C2_BAD_STATE")]_vars

\* drain_nb returned C2_OK with works at the decoder, and no drainTask was
\* posted for it.
C14_Witness ==
    /\ ret = Returned("drain", "C2_OK") /\ mComponentState = "RUNNING"
    /\ tasks = << >> /\ "drainTask" \notin ran /\ ~mIsDraining
    /\ DOMAIN mWorksAtDecoder # {}

\* flushTask, run in this state as the next task of the decoder sequence, would
\* change nothing and hand nothing to the listener, and the decoder is Idle with
\* no pending callback.
FlushIsNoOp ==
    LET s == [State("continue") EXCEPT !.tasks = Tail(@)]
    IN  /\ flushTask(s) = s
        /\ s.mState = "Idle" /\ s.mPendingDecodeCbs = << >> /\ ~s.mDrainCb
        /\ ~s.mIsDraining

\* The task behind the one at the head is flushTask.
FlushTaskNext == Len(tasks) >= 2 /\ tasks[2].t = "flushTask"

SecondStopRefused == ret = Returned("stop", "C2_BAD_STATE") /\ mComponentState = "STOPPED"

\* C16: a stop() that follows a stop() returns C2_BAD_STATE, posts no task and
\* touches neither the state nor the thread; a start() called next starts the
\* thread, creates the decoder and returns C2_OK in the RUNNING state.
C16_StopTwice ==
    [][/\ (Stop /\ ret = Returned("stop", "C2_OK")) =>
              (mComponentState = "STOPPED" /\ ~threadRunning /\ Rejected("stop"))
       /\ (Start /\ SecondStopRefused) =>
              /\ threadRunning' /\ clientPc' = "start"
              /\ tasks' = << Task("startTask", NoWork, 0, "no", 0) >>
       /\ (Started /\ SecondStopRefused) =>
              /\ mDecoder /\ mWeakThis /\ mComponentState' = "RUNNING"
              /\ ret' = Returned("start", "C2_OK")]_vars

\* start() is under way after a second stop() was refused.
C16_Witness ==
    SecondStopRefused /\ "stopTask" \in ran /\ clientPc = "started"

\* C17: when a start() that follows a stop() returns C2_OK, mPendingWorks,
\* mWorksAtDecoder and mOutputBitstreamIds are empty and mIsDraining is false.
C17_FreshStart ==
    [][(Started /\ "stopTask" \in ran /\ ret' = Returned("start", "C2_OK")) =>
          /\ mPendingWorks' = << >>
          /\ mWorksAtDecoder' = << >>
          /\ mOutputBitstreamIds' = << >>
          /\ ~mIsDraining']_vars

\* C18: entering ERROR with a listener set invokes onError exactly once; while
\* the state is ERROR no further onError is made, the state is left only by a
\* stop() or release() that returns C2_OK, queue, drain, flush and start return
\* C2_BAD_STATE, and stop and release are not refused.
C18_ErrorLatched ==
    [][/\ (mComponentState # "ERROR" /\ mComponentState' = "ERROR" /\ mListener) =>
              Len(errors') = Len(errors) + 1
       /\ mComponentState = "ERROR" =>
              /\ errors' = errors
              /\ \/ mComponentState' = "ERROR"
                 \/ mComponentState' = "STOPPED" /\ ret' = Returned("stop", "C2_OK")
                 \/ mComponentState' = "RELEASED" /\ ret' = Returned("release", "C2_OK")
              /\ Queue => ret' = Returned("queue", "C2_BAD_STATE")
              /\ Drain => ret' = Returned("drain", "C2_BAD_STATE")
              /\ Flush => ret' = Returned("flush", "C2_BAD_STATE")
              /\ Start => ret' = Returned("start", "C2_BAD_STATE")
              /\ Stop => (clientPc' = "stop" \/ ret' = Returned("stop", "C2_OK"))
              /\ Release => (clientPc' = "release" \/ ret' = Returned("release", "C2_OK"))]_vars

\* serviceDeviceTask dequeues a resolution change event whose coded size has an
\* area above 4096*4096, the output buffers having been allocated.
OversizedPoolRequest ==
    /\ mDecoder /\ threadRunning /\ tasks = << >> /\ mState # "Error"
    /\ \E nIn \in 0..Len(inputQueue), out \in DeviceOutputs :
           Commit(serviceDeviceTask(State("continue"), FALSE, nIn, out,
                                    [allocated |-> env.lim.outputs, size |-> "oversized"]))

BadValueReported == \E i \in DOMAIN errors : errors[i] = "BAD_VALUE"

InvalidWork(w) ==
    \/ w.worklets # 1 \/ w.input = "two"
    \/ w.input = "none" /\ w.flags \cap {"EOS", "CSD"} = {}

\* queueTask runs on an invalid work, the component having a listener.
QueueTaskInvalid ==
    /\ RunTask /\ Head(tasks).t = "queueTask" /\ mWeakThis /\ mListener
    /\ InvalidWork(Head(tasks).w)

\* After the step the work has been handed to the listener with result
\* CORRUPTED.
ReportedCorrupted(uid) ==
    \E i \in DOMAIN Reported' : Reported'[i].uid = uid /\ Reported'[i].result = "CORRUPTED"

\* The invalid work is not handed to the decoder.
NotDecoded ==
    /\ decodeLog' = decodeLog /\ mDecodeRequests' = mDecodeRequests
    /\ mPendingWorks' = mPendingWorks /\ mWorksAtDecoder' = mWorksAtDecoder

\* C20: when queueTask runs on an invalid work, the work is handed to the
\* listener with result CORRUPTED, the component state becomes ERROR, and the
\* work does not reach the decoder.
C20_InvalidWork ==
    [][QueueTaskInvalid =>
          /\ ReportedCorrupted(Head(tasks).w.uid)
          /\ mComponentState' = "ERROR"
          /\ NotDecoded]_vars

\* This step runs pumpPendingWorks in the RUNNING state with a listener set.
PumpRuns ==
    /\ RunTask /\ Head(tasks).t \in {"queueTask", "pumpPendingWorks"}
    /\ mWeakThis /\ mListener /\ mComponentState = "RUNNING"

\* The works the pump finds in mPendingWorks, the one queueTask pushes included.
Offered ==
    mPendingWorks \o (IF Head(tasks).t = "queueTask" THEN << Head(tasks).w >> ELSE << >>)

\* Those of them that the step takes from mPendingWorks.
Taken ==
    {i \in DOMAIN Offered :
        \A j \in DOMAIN mPendingWorks' : mPendingWorks'[j].uid # Offered[i].uid}

EmptyConfig(w) == "CSD" \in w.flags /\ w.input \in {"none", "null"}

\* The step reports the work from pumpPendingWorks with result OK.
ReportedByPump(uid) ==
    \E i \in DOMAIN Reported' :
        /\ i > Len(Reported) /\ Reported'[i].uid = uid
        /\ Reported'[i].result = "OK" /\ Reported'[i].via = "pumpPendingWorks"

\* decode() is called once for each taken work that has an input buffer, and
\* for no other.
DecodesOnlyBuffers ==
    Len(decodeLog') - Len(decodeLog) =
        Cardinality({i \in Taken : Offered[i].input = "buf"})

\* C21 as stated: every work with the CODEC_CONFIG flag and an empty input is
\* reported with result OK by the pump step that takes it from mPendingWorks,
\* and decode() is not called for it.
C21_EmptyConfigReported ==
    [][PumpRuns =>
          /\ \A i \in Taken : EmptyConfig(Offered[i]) => ReportedByPump(Offered[i].uid)
          /\ DecodesOnlyBuffers]_vars

\* C21: a work with the CODEC_CONFIG flag, without the EOS flag, and with an
\* empty input is reported with result OK by the pump step that takes it from
\* mPendingWorks, whatever works are at the decoder, and decode() is not called
\* for it; with the EOS flag it stays in mWorksAtDecoder as the EOS work.
C21_EmptyConfigNoEos ==
    [][PumpRuns =>
          /\ \A i \in Taken :
                 EmptyConfig(Offered[i]) =>
                     IF "EOS" \in Offered[i].flags
                     THEN /\ mIsDraining'
                          /\ \E k \in DOMAIN mWorksAtDecoder' :
                                 mWorksAtDecoder'[k].uid = Offered[i].uid
                     ELSE ReportedByPump(Offered[i].uid)
          /\ DecodesOnlyBuffers]_vars

\* An empty codec config work was reported by the pump while an earlier work
\* is at the decoder.
C21_Witness ==
    \E i \in DOMAIN Reported :
        /\ EmptyConfig(Reported[i]) /\ Reported[i].via = "pumpPendingWorks"
        /\ Reported[i].result = "OK"
        /\ \E k \in DOMAIN mWorksAtDecoder : mWorksAtDecoder[k].fi < Reported[i].fi

\* C22: when the pump takes a work whose bitstream id is already a key of
\* mWorksAtDecoder, the entry for that id is afterwards the work just taken.
C22_LastWriterWins ==
    [][PumpRuns =>
          \A i \in Taken :
              LET bitstreamId == frameIndexToBitstreamId(Offered[i].fi)
              IN  bitstreamId \in DOMAIN mWorksAtDecoder =>
                      /\ bitstreamId \in DOMAIN mWorksAtDecoder'
                      /\ mWorksAtDecoder'[bitstreamId].uid = Offered[i].uid]_vars

\* C23: with a cap >= 0 neither the counter nor the number of components that
\* exist exceeds the cap; a create() refused for the cap leaves the counter as
\* it was, and no create() is refused for the cap when the cap is -1.
C23_InstanceLimit ==
    /\ [](kMaxConcurrentInstances >= 0 =>
             /\ Objects <= kMaxConcurrentInstances
             /\ sConcurrentInstances <= kMaxConcurrentInstances)
    /\ [][\A t \in Creators :
             (createPc[t] = "check" /\ createRet'[t] = "limit" /\ createPc'[t] = "idle") =>
                 /\ kMaxConcurrentInstances >= 0
                 /\ sConcurrentInstances' = sConcurrentInstances
                 /\ instances' = instances]_vars

\* A create() was refused at the cap while another thread is in a destructor.
C23_Witness ==
    /\ kMaxConcurrentInstances = MaxCap /\ Objects = MaxCap
    /\ Destroying # {}
    /\ \E t \in Creators : createRet[t] = "limit" /\ createPc[t] = "idle"

\* This step runs onDrainDone(kOk) in the RUNNING state with a listener set.
DrainDoneOk ==
    /\ RunTask /\ Head(tasks).t = "drainCb" /\ Head(tasks).st = "Ok"
    /\ mWeakThis /\ mListener /\ mComponentState = "RUNNING"

\* The step hands an EOS work to the listener, the last of its batch.
ReportsEos ==
    /\ Len(workDone') = Len(workDone) + 1
    /\ LET w == Reported'[Len(Reported')]
       IN  w.via = "reportEOSWork" /\ w.result = "OK" /\ "EOS" \in w.outFlags

\* While mIsDraining stays set no work leaves mPendingWorks for the decoder.
HeldWhileDraining ==
    (mIsDraining /\ mIsDraining') =>
        /\ Len(decodeLog') = Len(decodeLog)
        /\ DOMAIN mWorksAtDecoder' \subseteq DOMAIN mWorksAtDecoder
        /\ \A i \in DOMAIN mPendingWorks :
               \/ i \in DOMAIN mPendingWorks' /\ mPendingWorks'[i].uid = mPendingWorks[i].uid
               \/ mPendingWorks' = << >>

\* The pump takes the works at the head of mPendingWorks, in their order.
TakesPrefix == \A i \in Taken : \A j \in 1..i : j \in Taken

\* C24: while mIsDraining is set no pending work reaches the decoder; when the
\* drain completes with kOk the EOS work is reported, the component stays
\* RUNNING, the works queued during the drain stay in mPendingWorks and
\* pumpPendingWorks is posted, which submits them in queue order.
C24_DrainThenInput ==
    [][/\ HeldWhileDraining
       /\ DrainDoneOk =>
              /\ ReportsEos /\ mComponentState' = "RUNNING" /\ ~mIsDraining'
              /\ mPendingWorks' = mPendingWorks
              /\ tasks' = Append(Tail(tasks), Task("pumpPendingWorks", NoWork, 0, "", 0))
       /\ PumpRuns => TakesPrefix]_vars

\* A work the detection marked as holding a no-show frame.
MarkedNoShow(w) == "DROP" \in w.outFlags /\ w.outBuf = NoBlock /\ w.flags = {}

\* Every work reported by the no-show detection is OK, without flags and
\* without an output buffer.
NoShowReportShape ==
    \A i \in DOMAIN Reported :
        Reported[i].via = "noShow" =>
            /\ Reported[i].result = "OK" /\ Reported[i].outFlags = {}
            /\ Reported[i].outBuf = NoBlock /\ Reported[i].input = "null"

\* Nothing is left to run for the works at the decoder: no task is posted, the
\* device holds no input buffer and no output id waits to be reported.
DecoderQuiet == tasks = << >> /\ inputQueue = << >> /\ mOutputBitstreamIds = << >>

\* C25: a work whose frame the codec hid behind a later output is reported with
\* OK, no flags and no output buffer, whether its input buffer is released
\* before or after the later output arrives: once the decoder is quiet no
\* marked work is left in mWorksAtDecoder.
C25_NoShowFrames ==
    /\ NoShowReportShape
    /\ DecoderQuiet =>
           \A i \in DOMAIN mWorksAtDecoder : ~MarkedNoShow(mWorksAtDecoder[i])

\* stopTask runs on the decoder sequence.
StopTaskRuns == RunTask /\ Head(tasks).t = "stopTask" /\ mWeakThis

OutstandingUids == {w.uid : w \in Outstanding}

\* One batch is handed to the listener: the works the component held, each with
\* NOT_FOUND and without its input buffer.
AbandonedBatch ==
    /\ Len(workDone') = Len(workDone) + 1
    /\ LET batch == workDone'[Len(workDone')]
       IN  /\ {batch[i].uid : i \in DOMAIN batch} = OutstandingUids
           /\ Len(batch) = Cardinality(OutstandingUids)
           /\ \A i \in DOMAIN batch :
                  batch[i].result = "NOT_FOUND" /\ batch[i].input # "buf"

\* stop() returns: the thread is joined.
StopReturns == Joined /\ clientPc = "stop"

\* C26: stopTask hands every work of mPendingWorks and mWorksAtDecoder to the
\* listener with NOT_FOUND and a released input buffer, and leaves both
\* collections empty, mIsDraining false and the decoder destroyed; when stop()
\* returns no queueTask posted before it is left to run.
C26_StopFlushes ==
    [][/\ StopTaskRuns =>
              /\ mListener => IF Outstanding = {} THEN workDone' = workDone
                              ELSE AbandonedBatch
              /\ mPendingWorks' = << >> /\ DOMAIN mWorksAtDecoder' = {}
              /\ ~mIsDraining' /\ ~mDecoder'
       /\ StopReturns =>
              /\ "stopTask" \in ran
              /\ \A i \in DOMAIN tasks : tasks[i].t # "queueTask"
              /\ mPendingWorks = << >> /\ DOMAIN mWorksAtDecoder = {}
              /\ ~mIsDraining /\ ~mDecoder
              /\ mComponentState' = "STOPPED"]_vars

\* stop() has returned after stopTask abandoned one pending work and one work
\* at the decoder.
C26_Witness ==
    /\ mComponentState = "STOPPED" /\ clientPc = "idle" /\ ran = {"stopTask"}
    /\ workDone # << >>
    /\ LET batch == workDone[Len(workDone)]
       IN  /\ Len(batch) = 2
           /\ \A i \in DOMAIN batch : batch[i].via = "abandon"
           /\ \E i \in DOMAIN batch : batch[i].input = "null" /\ batch[i].flags = {}

\* What the listener has received.
Callbacks == << workDone, errors >>

\* The members of the component that its tasks read and write.
ComponentFields ==
    << mComponentState, mListener, mPendingWorks, mWorksAtDecoder, mOutputBitstreamIds,
       mIsDraining, mDecoder >>

\* stop() or release() returns: the thread is joined.
TeardownReturns == Joined /\ clientPc \in {"stop", "release"}

\* A task or decoder callback runs after the teardown task invalidated the weak
\* pointers.
RunsAfterTeardownTask == RunTask /\ ~mWeakThis

C28_LiveTaskRunner == [][EntryPost => threadRunning]_vars

\* The works this step takes from mPendingWorks, in their order there, and
\* those of them that have an input buffer.
TakenWorks == SubSeq(Offered, 1, Cardinality(Taken))
HasInputBuffer(w) == w.input = "buf"
DecodedWorks == SelectSeq(TakenWorks, HasInputBuffer)

\* The step calls decode().
DecodeCalled == Len(decodeLog') > Len(decodeLog)

\* The requests decode() pushes for them, in the order of the works.
PushedDecodes ==
    IF DecodeCalled
    THEN [j \in 1..Len(DecodedWorks) |->
             Request(frameIndexToBitstreamId(DecodedWorks[j].fi), FALSE,
                     "CSD" \notin DecodedWorks[j].flags, Len(decodeLog) + j)]
    ELSE << >>

DrainSentinel == Request(0, TRUE, FALSE, 0)
IsDecodeRequest(r) == ~r.drain
RequestIds(reqs) ==
    LET sel == SelectSeq(reqs, IsDecodeRequest) IN [i \in DOMAIN sel |-> sel[i].id]

\* The input buffers this step queues to the device, in their order.
QueuedToDevice ==
    IF Len(inputQueue') >= Len(inputQueue)
       /\ SubSeq(inputQueue', 1, Len(inputQueue)) = inputQueue
    THEN SubSeq(inputQueue', Len(inputQueue) + 1, Len(inputQueue'))
    ELSE << >>

\* The step leaves mDecodeRequests a queue: what it pushes (the decode requests
\* of the taken works in their order, then at most one drain sentinel) goes to
\* the back, what it removes comes from the front, the removed decode requests
\* are the input buffers queued to the device in the same order, and nothing
\* behind a drain sentinel is removed.
FifoStep ==
    \E pushedDrain \in BOOLEAN :
        LET all == mDecodeRequests \o PushedDecodes
                       \o (IF pushedDrain THEN << DrainSentinel >> ELSE << >>)
        IN  \E k \in 0..Len(all) :
                /\ mDecodeRequests' = SubSeq(all, k + 1, Len(all))
                /\ RequestIds(SubSeq(all, 1, k)) = QueuedToDevice
                /\ \A i \in 1..k : all[i].drain => i = k

\* The works wait in the order the client queued them: those at the decoder
\* before those in mPendingWorks, before those whose queueTask is still posted.
IsQueueTask(task) == task.t = "queueTask"
QueueOrder ==
    LET posted == SelectSeq(tasks, IsQueueTask)
        waiting == mPendingWorks \o [i \in DOMAIN posted |-> posted[i].w]
    IN  /\ \A i, j \in DOMAIN waiting : i < j => waiting[i].uid < waiting[j].uid
        /\ \A x \in DOMAIN mWorksAtDecoder, i \in DOMAIN waiting :
               mWorksAtDecoder[x].uid < waiting[i].uid

\* C29: pumpPendingWorks calls decode() for the works in the order of
\* mPendingWorks, the decoder queues the input buffers to the device in the
\* order of the decode() calls, and no request passes a drain sentinel.
C29_SubmissionOrder ==
    [][/\ QueueOrder
       /\ DecodeCalled =>
              /\ TakesPrefix
              /\ Len(DecodedWorks) = Len(decodeLog') - Len(decodeLog)
       /\ (mDecoder /\ mDecoder') => FifoStep]_vars

\* One input buffer is at the device, the next decode request waits for a free
\* input buffer and a drain sentinel waits behind it.
C29_Witness ==
    /\ Len(inputQueue) = 1 /\ Len(mDecodeRequests) = 2
    /\ ~mDecodeRequests[1].drain /\ mDecodeRequests[2].drain
    /\ inputQueue[1] < mDecodeRequests[1].id

\* The step is taken by one decoder: it neither creates nor destroys it.
DecoderLives == mDecoder /\ mDecoder'

\* The STOP command of a drain sentinel is sent.
StopSent == ~mDrainCb /\ mDrainCb' /\ devCmd' = "stopping"

\* The changes of mState one step makes.  decode() on an Idle decoder sets
\* Decoding and pumps the requests within the same call, so a sentinel waiting
\* at the head takes the state on to Draining in that step.
StateEdge ==
    \/ mState' = mState
    \/ mState' = "Error"
    \/ mState = "Idle" /\ mState' = "Decoding" /\ DecodeCalled
    \/ mState = "Decoding" /\ mState' = "Draining" /\ StopSent
    \/ mState = "Idle" /\ mState' = "Draining" /\ DecodeCalled /\ StopSent
    \/ mState = "Draining" /\ mState' = "Idle" /\ mDrainCb /\ ~mDrainCb' /\ ServiceDevice
    \/ mState \in {"Decoding", "Draining"} /\ mState' = "Idle" /\ FlushTaskRuns

\* What decode(), drain(), flush() and serviceDeviceTask() would change.
DecoderQueues == << mDecodeRequests, mPendingDecodeCbs, mDrainCb, inputQueue, devCmd >>

\* A callback with status kError is posted for each call of decode() and for
\* the call of drain() of this step.
DecodeFailsPosted ==
    \A n \in (Len(decodeLog) + 1)..Len(decodeLog') :
        \E i \in DOMAIN tasks' :
            tasks'[i].t = "decodeCb" /\ tasks'[i].st = "Error" /\ tasks'[i].n = n
DrainCalled == mIsDraining' /\ ~mIsDraining
DrainFailsPosted ==
    \E i \in DOMAIN tasks' :
        /\ tasks'[i].t = "drainCb" /\ tasks'[i].st = "Error"
        /\ i > Len(tasks) - 1

\* C30: mState changes only from Idle to Decoding at a decode(), from Decoding
\* to Draining when the STOP command of a drain sentinel is sent, from Draining
\* to Idle at the LAST output, from Decoding or Draining to Idle at a flush,
\* and to Error; in Error it stays Error, decode() and drain() post their
\* callback with kError, and flush() and serviceDeviceTask() change nothing.
C30_DecoderStates ==
    [][DecoderLives =>
          /\ StateEdge
          /\ mState = "Error" =>
                 /\ mState' = "Error"
                 /\ DecoderQueues' = DecoderQueues
                 /\ DecodeFailsPosted
                 /\ DrainCalled => DrainFailsPosted
                 /\ ~ServiceDevice]_vars

\* The decoder is in Error under a running component, and a decode() called in
\* that state has completed with kError.
C30_Witness ==
    /\ mDecoder /\ mState = "Error" /\ threadRunning
    /\ \E n \in DOMAIN decodeLog : decodeLog[n] = << "Error" >>

\* ------------------------------------------------------------------ C31..C40
\* A step that runs drainTask with nothing pending and works at the decoder:
\* the task only calls V4L2Decoder::drain.
DrainTaskDrains ==
    /\ threadRunning /\ ~crashed /\ tasks # << >>
    /\ Head(tasks).t = "drainTask" /\ mWeakThis
    /\ mPendingWorks = << >> /\ DOMAIN mWorksAtDecoder # {}
    /\ nCalls' = nCalls /\ clientPc' = clientPc /\ Len(tasks') <= Len(tasks)
    /\ vars' # vars

\* The drain callback is posted with status `st`, and nothing else is.
DrainCbPosted(st) == tasks' = Append(Tail(tasks), Task("drainCb", NoWork, 0, st, 0))

\* The sentinel went behind every queued request; the pump that follows takes
\* requests from the front only, and takes the sentinel only by sending STOP.
SentinelAppended ==
    LET reqs == Append(mDecodeRequests, DrainSentinel)
    IN  /\ tasks' = Tail(tasks)
        /\ \E k \in 0..Len(reqs) :
               /\ mDecodeRequests' = SubSeq(reqs, k + 1, Len(reqs))
               /\ IF k = Len(reqs) THEN StopSent /\ mState' = "Draining"
                  ELSE mState' = "Decoding" /\ mDrainCb' = mDrainCb

\* The drain callbacks the decoder holds: the sentinels and mDrainCb.
HeldDrainCbs(reqs, cb) ==
    Len(SelectSeq(reqs, LAMBDA r : r.drain)) + (IF cb THEN 1 ELSE 0)

\* C31: drain() in Idle posts the callback with kOk, sends no command and stays
\* Idle; in Decoding it appends a sentinel behind all queued requests; in
\* Draining or Error it posts the callback with kError and changes neither the
\* state nor the request FIFO; and a flush leaves no drain callback unfired in
\* the decoder.
C31_DrainByState ==
    [][/\ DrainTaskDrains =>
              CASE mState = "Idle" ->
                       /\ DrainCbPosted("Ok") /\ cmdLog' = cmdLog /\ mState' = "Idle"
                       /\ mDecodeRequests' = mDecodeRequests /\ mDrainCb' = mDrainCb
                [] mState = "Decoding" -> SentinelAppended
                [] OTHER ->
                       /\ DrainCbPosted("Error") /\ mState' = mState
                       /\ mDecodeRequests' = mDecodeRequests /\ mDrainCb' = mDrainCb
       /\ (FlushTaskRuns /\ mDecoder) => HeldDrainCbs(mDecodeRequests', mDrainCb') = 0]_vars

\* flushTask is next on the decoder sequence and the flush it runs will abort
\* at least one pending decode callback.
FlushAborts ==
    /\ threadRunning /\ ~crashed /\ tasks # << >>
    /\ Head(tasks).t = "flushTask" /\ mWeakThis /\ mDecoder
    /\ mState \in {"Decoding", "Draining"} /\ DOMAIN mPendingDecodeCbs # {}

\* The first callback that flush runs with kAborted (mPendingDecodeCbs is a
\* std::map, walked by ascending id), and the state when it returns.
FirstAborted == Head(SortedKeys(DOMAIN mPendingDecodeCbs))
AfterFirstAbort ==
    RunDecodeCb(State("continue"), mPendingDecodeCbs[FirstAborted], FirstAborted, "Aborted")

\* C32: when onDecodeDone(id, kAborted) returns, the id has been pushed onto
\* mOutputBitstreamIds, and the work either is still at the decoder with its
\* input buffer released and DROP_FRAME set, or has been reported by the pump
\* that ends the callback.
C32_AbortedMarksDrop ==
    (FlushAborts /\ FirstAborted \in DOMAIN mWorksAtDecoder) =>
        LET s1 == AfterFirstAbort
            uid == mWorksAtDecoder[FirstAborted].uid
        IN  /\ s1.pushLog = Append(pushLog, FirstAborted)
            /\ IF FirstAborted \in DOMAIN s1.mWorksAtDecoder
               THEN /\ s1.mWorksAtDecoder[FirstAborted].input = "null"
                    /\ "DROP" \in s1.mWorksAtDecoder[FirstAborted].outFlags
               ELSE /\ Len(s1.workDone) = Len(workDone) + 1
                    /\ \E i \in DOMAIN s1.workDone[Len(s1.workDone)] :
                           /\ s1.workDone[Len(s1.workDone)][i].uid = uid
                           /\ s1.workDone[Len(s1.workDone)][i].via = "pumpReportWork"
                           /\ s1.workDone[Len(s1.workDone)][i].input = "null"

\* C33: while mIsDraining is set, a work that is alone in mWorksAtDecoder is
\* the EOS work, so the guard of reportWorkIfFinished holds back no work that
\* isWorkDone would let through.
C33_LastWorkIsEos ==
    (mIsDraining /\ Cardinality(DOMAIN mWorksAtDecoder) = 1) =>
        \A id \in DOMAIN mWorksAtDecoder :
            /\ "EOS" \in mWorksAtDecoder[id].flags
            /\ ~isWorkDone(mWorksAtDecoder[id])

\* The works handed over by reportWorkIfFinished.
IsFinishedReport(w) == w.via \in {"pumpReportWork", "noShow"}

\* The works the component has seen leave the decoder or still holds there.
SeenWorks == {Reported[p] : p \in DOMAIN Reported}
                 \cup {mWorksAtDecoder[i] : i \in DOMAIN mWorksAtDecoder}

\* DROP_FRAME is set by the no-show detection alone, on a work that precedes a
\* work whose output buffer has come back.
WasDropped(w) ==
    /\ w.outFlags = {}
    /\ \E v \in SeenWorks : v.outBuf # NoBlock /\ v.fi > w.fi /\ v.ts > w.ts

\* What isWorkDone asked of a work that reportWorkIfFinished handed over, and
\* what reportWorkIfFinished wrote into it.
FinishedShape(w) ==
    /\ "EOS" \notin w.flags
    /\ w.input = "null"
    /\ w.outBuf # NoBlock \/ "CSD" \in w.flags \/ WasDropped(w)
    /\ w.result = "OK"
    /\ w.processed = w.worklets
    /\ "DROP" \notin w.outFlags

\* C34 as stated: a work reported by reportWorkIfFinished is no EOS work, has
\* its input released, has an output buffer or is a CODEC_CONFIG work or was
\* dropped, and carries OK and its worklet count; and no work handed to the
\* listener has DROP_FRAME in its output flags.
C34_FinishedWorks ==
    \A p \in DOMAIN Reported :
        /\ "DROP" \notin Reported[p].outFlags
        /\ IsFinishedReport(Reported[p]) => FinishedShape(Reported[p])

\* C34: the same of the works reported as finished, and DROP_FRAME is cleared
\* in those and in the EOS work; an abandoned work keeps its output flags.
C34_FinishedDropCleared ==
    \A p \in DOMAIN Reported :
        /\ IsFinishedReport(Reported[p]) => FinishedShape(Reported[p])
        /\ Reported[p].via = "reportEOSWork" => Reported[p].outFlags = {"EOS"}
        /\ "DROP" \in Reported[p].outFlags =>
               Reported[p].via = "abandon" /\ Reported[p].result = "NOT_FOUND"

\* A dropped work was reported as finished: without buffer and without flags.
C34_Witness ==
    \E p \in DOMAIN Reported :
        /\ IsFinishedReport(Reported[p]) /\ Reported[p].outBuf = NoBlock
        /\ "CSD" \notin Reported[p].flags

\* SpecNoShow with a client that makes one more call, so that it can stop the
\* component while a work marked as a no-show frame is still at the decoder.
InitDrop ==
    InitWith(Env("VP9", {1}, {<< {}, 1, "buf" >>}, AllOps, WithEos, TRUE, NoFaults, FALSE,
                 Limits(MaxCalls, NoShowInputBuffers, MaxOutputBuffers, MaxResChanges)))
SpecDrop == InitDrop /\ [][Next]_vars

\* The device can be serviced while a drain callback is pending.
DrainPending ==
    /\ mDecoder /\ threadRunning /\ ~crashed /\ tasks = << >> /\ mWeakThis
    /\ mDrainCb /\ mState # "Error"

\* The output buffers the device may hand back now whose frame the decoder
\* finds, and the state when serviceDeviceTask has dequeued one of them.
Dequeuable == {out \in DeviceOutputs \ {NoOutput} : out.slot \in DOMAIN mFrameAtDevice}
AfterDequeue(out) == serviceDeviceTask(State("continue"), FALSE, 0, out, NoEvent)

\* onDrainDone(kOk) has run: the component left the drain, and either posted
\* the pump of its pending works or reported an error.
DrainDoneRan(s1) ==
    /\ ~s1.mIsDraining
    /\ \/ s1.mComponentState = "ERROR"
       \/ \E i \in DOMAIN s1.tasks : s1.tasks[i].t = "pumpPendingWorks"

\* C35: with a drain callback pending, a dequeued output buffer that bears LAST
\* completes the drain (callback run with kOk, START sent, state Idle), an
\* empty one included, which stays queued at the device and delivers no frame;
\* a buffer without LAST leaves the drain pending; and a buffer that delivers a
\* frame leaves the device.
C35_DrainCompletion ==
    DrainPending =>
        \A out \in Dequeuable :
            LET s1 == AfterDequeue(out)
            IN  /\ IF out.last
                   THEN /\ ~s1.mDrainCb /\ s1.mState = "Idle" /\ s1.devCmd = "run"
                        /\ DrainDoneRan(s1)
                   ELSE /\ s1.mDrainCb /\ s1.mState = mState /\ s1.devCmd = devCmd
                        /\ s1.mIsDraining = mIsDraining
                /\ IF out.id = NoBlock
                   THEN /\ out.slot \in s1.outputQueue
                        /\ s1.mFrameAtDevice = mFrameAtDevice
                        /\ s1.pushLog = pushLog
                   ELSE /\ out.slot \notin s1.outputQueue
                        /\ out.slot \notin DOMAIN s1.mFrameAtDevice

\* A drain was completed by a LAST buffer and its EOS work reported, and an
\* output buffer is queued at the device.
C35_Witness ==
    /\ mDecoder /\ ~mDrainCb /\ mState = "Idle" /\ devCmd = "run" /\ cmdLog # {}
    /\ outputQueue # {}
    /\ \E p \in DOMAIN Reported : Reported[p].via = "reportEOSWork"

\* C36: the slots of mFrameAtDevice are the output buffers queued at the
\* device, so the frame of every buffer the device may hand back is found; a
\* destroyed decoder holds no frame and no queued buffer.
C36_FramesAtDevice ==
    /\ DOMAIN mFrameAtDevice = outputQueue
    /\ \A out \in DeviceOutputs \ {NoOutput} : out.slot \in DOMAIN mFrameAtDevice
    /\ ~mDecoder => outputQueue = {}

\* A buffer is queued with its frame after a second resolution change and
\* after a flush that aborted a decode.
C36_Witness ==
    /\ "flushTask" \in ran /\ nResChanges >= 2 /\ outputQueue # {}
    /\ \E n \in DOMAIN decodeLog : decodeLog[n] = << "Aborted" >>

\* The decode completions that the next step of the decoder sequence can
\* deliver to onDecodeDone: the callback of the input buffer the device hands
\* back first, the first callback a flush aborts, and a posted callback.
NextDecodeDone ==
    IF ~(mDecoder /\ threadRunning /\ mWeakThis) \/ crashed THEN {}
    ELSE IF tasks = << >>
    THEN {id \in DOMAIN mPendingDecodeCbs :
              mState # "Error" /\ inputQueue # << >> /\ id = Head(inputQueue)}
    ELSE IF Head(tasks).t = "decodeCb" THEN {Head(tasks).id}
    ELSE {id \in DOMAIN mPendingDecodeCbs : FlushAborts /\ id = FirstAborted}

\* C37: a decode completion that can be delivered to onDecodeDone names a work
\* that is in mWorksAtDecoder.
C37_DecodeDoneFindsWork == NextDecodeDone \subseteq DOMAIN mWorksAtDecoder

\* Spec with a client that makes one more call, so that it can queue a work
\* after a flush that followed two queued works.
InitResume ==
    InitWith(Env("H264", {1}, {<< {}, 1, "buf" >>}, AllOps, WithEos, TRUE, NoFaults, FALSE,
                 Limits(MaxCalls + 1, NumInputBuffers, MaxOutputBuffers, MaxResChanges)))
SpecResume == InitResume /\ [][Next]_vars

\* C38: in a run without device faults in which drainTask is the only task of
\* the client that has run besides queueTask, the component is not in ERROR.
C38_DrainKeepsRunning == ran = {"drainTask"} => mComponentState # "ERROR"

\* C39: while setListener_vb waits for its task, the task is still posted on
\* the running decoder sequence, so it will run and signal the caller.
C39_ListenerReturns ==
    clientPc = "setListener" =>
        /\ threadRunning
        /\ \E i \in DOMAIN tasks : tasks[i].t = "setListenerTask"

\* The ids of the input buffers queued at the device.
QueuedInputIds == {inputQueue[i] : i \in DOMAIN inputQueue}

\* A decode request is at the head of the FIFO of a decoder in Decoding.
DecodeWaits ==
    /\ mDecoder /\ mState = "Decoding"
    /\ mDecodeRequests # << >> /\ ~Head(mDecodeRequests).drain

\* pumpDecodeRequest is posted on the decoder sequence.
PumpPosted == \E i \in DOMAIN tasks : tasks[i].t = "pumpDecodeRequest"

\* C40: no more input buffers are queued at the device than are allocated, the
\* pending decode callbacks are those of the queued input buffers, and a decode
\* request waits at the head of the FIFO only while every input buffer is
\* queued or the pump that resumes it is posted.
C40_InputCoupling ==
    /\ Len(inputQueue) <= env.lim.inputs
    /\ Cardinality(DOMAIN mPendingDecodeCbs) <= env.lim.inputs
    /\ DOMAIN mPendingDecodeCbs = QueuedInputIds
    /\ DecodeWaits => (Len(inputQueue) = env.lim.inputs \/ PumpPosted)

\* A request waits in the FIFO after an input buffer was dequeued, with the
\* pump posted and another request's buffer still queued.
C40_Witness ==
    /\ DecodeWaits /\ PumpPosted /\ Len(inputQueue) < env.lim.inputs
    /\ inputQueue # << >>

====
